---- MODULE Spec2Model ----
(***************************************************************************)
(* A state-machine model of the evacuation engine of Zheng-2011-Model:     *)
(* the time-stepped driver of src/src/main.c (run_simulations), the        *)
(* pedestrian set of src/src/pedestrian.c, the fire propagation of         *)
(* src/src/fire_dynamics.c and the Zheng static field of                   *)
(* src/src/static_field.c.                                                 *)
(*                                                                         *)
(* Floating-point fields are kept by what the program reads from them.     *)
(* A transition probability is read only for being zero, nonzero or NaN    *)
(* (transition_selection skips zero entries and takes the first entry the  *)
(* draw falls under), so a weight is one of "zero", "tiny", "pos", "nan".  *)
(* The dynamic floor field only scales a weight by exp(kd * n) > 0 and is  *)
(* not kept.  The pseudo-random stream is the choice of the draws.         *)
(***************************************************************************)
EXTENDS Integers, Sequences, FiniteSets, TLC

(* ---------------- bounds of the model ---------------- *)

\* number_timesteps is kept exactly up to MaxT (the evacuation times looked at are
\* below it), and so is heatmap_grid, which only counts what the time steps did.
MaxT == 4

\* The simulation sets main is followed through.
MaxSets == 3

\* The particles the dynamic floor field is followed with.
MaxParticles == 3

\* The pedestrians the pedestrian list is followed with.
MaxPedestrians == 3

(* ---------------- program constants ---------------- *)

IMPASSABLE_OBJECT == -1000
EXIT_CELL == -1001
EMPTY_CELL == -1002
\* pedestrian.c, grid.c and dynamic_field.c still use the former name of IMPASSABLE_OBJECT.
WALL_CELL == IMPASSABLE_OBJECT
\* The fire and blocked-exit sentinels continue the series of shared_resources.h.
FIRE_CELL == -1003
BLOCKED_EXIT_CELL == -1004
\* exp() of an IEEE-754 double is exactly 0 below about -745.13.
EXP_UNDERFLOW == -745
\* The value calculate_zheng_static_field fills the grid with before the distances.
UNSET_DISTANCE == -1

States == {"LEAVING", "GOT_OUT", "STOPPED", "MOVING", "DEAD"}

(* ---------------- grids ---------------- *)

Loc(l, c) == <<l, c>>

Cells(lines, cols) == (0 .. lines - 1) \X (0 .. cols - 1)

\* A rectangular room: IMPASSABLE on the boundary, EMPTY inside.
Boundary(lines, cols) ==
  {x \in Cells(lines, cols) : x[1] = 0 \/ x[2] = 0 \/ x[1] = lines - 1 \/ x[2] = cols - 1}

Min(a, b) == IF a < b THEN a ELSE b


(* ---------------- configurations ---------------- *)

\* The environments and parameter records the engine is started with.  Each is an
\* environment file (walls, exits, fire seeds, pedestrians) and a Command_Line_Args.
Room3(imm) ==
  [ environment_filename |-> "room3", global_line_number |-> 3, global_column_number |-> 3,
    obstacles |-> Boundary(3, 3), exits |-> << <<Loc(1, 0)>> >>, fire |-> {},
    pedestrians |-> <<Loc(1, 1)>>, immediate_exit |-> imm, fire_is_present |-> FALSE,
    fire_spread_interval |-> 2, ks |-> 1, mu |-> 0,
    environment_origin |-> "STRUCTURE_DOORS_AND_PEDESTRIANS", auxiliary |-> << >>, num_simulations |-> 1 ]

EmptyRoom ==
  [ environment_filename |-> "empty_room", global_line_number |-> 5, global_column_number |-> 5,
    obstacles |-> Boundary(5, 5), exits |-> << <<Loc(2, 0)>> >>, fire |-> {},
    pedestrians |-> <<Loc(2, 3)>>, immediate_exit |-> TRUE, fire_is_present |-> FALSE,
    fire_spread_interval |-> 2, ks |-> 1, mu |-> 0,
    environment_origin |-> "STRUCTURE_DOORS_AND_PEDESTRIANS", auxiliary |-> << >>, num_simulations |-> 1 ]

\* Fire on the only cell in front of the only exit; the spread interval is longer
\* than the time steps counted.
FireBlock(k) ==
  [ environment_filename |-> "fire_block", global_line_number |-> 5, global_column_number |-> 5,
    obstacles |-> Boundary(5, 5), exits |-> << <<Loc(2, 0)>> >>, fire |-> {Loc(2, 1)},
    pedestrians |-> <<Loc(2, 3)>>, immediate_exit |-> TRUE, fire_is_present |-> TRUE,
    fire_spread_interval |-> MaxT + 1, ks |-> k, mu |-> 0,
    environment_origin |-> "STRUCTURE_DOORS_AND_PEDESTRIANS", auxiliary |-> << >>, num_simulations |-> 1 ]

\* A 2x3 interior with two exits and a fire that spreads every second step.
FireSpread(k) ==
  [ environment_filename |-> "fire_spread", global_line_number |-> 4, global_column_number |-> 5,
    obstacles |-> Boundary(4, 5), exits |-> << <<Loc(1, 0)>>, <<Loc(2, 4)>> >>, fire |-> {Loc(1, 3)},
    pedestrians |-> <<Loc(2, 1)>>, immediate_exit |-> FALSE, fire_is_present |-> TRUE,
    fire_spread_interval |-> 2, ks |-> k, mu |-> 0,
    environment_origin |-> "STRUCTURE_DOORS_AND_PEDESTRIANS", auxiliary |-> << >>, num_simulations |-> 2 ]

\* A plus-shaped interior (the four corners of the 3x3 interior are obstacles) with
\* four pedestrians around and on its centre; m is the friction parameter mu.
Cross(m) ==
  [ environment_filename |-> "cross", global_line_number |-> 5, global_column_number |-> 5,
    obstacles |-> Boundary(5, 5) \cup {Loc(1, 1), Loc(1, 3), Loc(3, 1), Loc(3, 3)},
    exits |-> << <<Loc(2, 0)>> >>, fire |-> {},
    pedestrians |-> <<Loc(1, 2), Loc(2, 1), Loc(2, 2), Loc(2, 3)>>,
    immediate_exit |-> FALSE, fire_is_present |-> FALSE,
    fire_spread_interval |-> 2, ks |-> 1, mu |-> m,
    environment_origin |-> "STRUCTURE_DOORS_AND_PEDESTRIANS", auxiliary |-> << >>, num_simulations |-> 1 ]

Configurations ==
  {Room3(TRUE), Room3(FALSE), EmptyRoom, FireBlock(0), FireBlock(1),
   FireSpread(0), FireSpread(1), Cross(0), Cross(1)}

(* ---------------- state ---------------- *)

VARIABLES
  cli_args,                  \* Command_Line_Args and the loaded environment
  obstacle_grid,             \* IMPASSABLE_OBJECT or EMPTY_CELL
  exits_only_grid,           \* EXIT_CELL, BLOCKED_EXIT_CELL or EMPTY_CELL
  exits_set,                 \* exits_set.list: [coordinates, is_blocked_by_fire]
  initial_fire_grid,
  fire_grid,                 \* FIRE_CELL or EMPTY_CELL
  static_floor_field,        \* exits_set.static_floor_field (see calculate_zheng_static_field)
  pedestrian_set,            \* pedestrian_set.list
  pedestrian_position_grid,  \* 0 or the id of the pedestrian on the cell
  heatmap_grid,
  number_timesteps,
  timesteps_mod_interval,    \* number_timesteps % fire_spread_interval
  has_the_fire_spread,
  simu_index,
  output,                    \* the evacuation times written so far
  pc,                        \* the place of main or run_simulations the program is at
  auxiliary_file,            \* the simulation sets of the auxiliary file not read yet
  simulation_set_index,
  returned_value,            \* what the last function called has returned
  dynamic_floor_field,       \* exits_set.dynamic_floor_field: particles per cell
  fire_floor_field           \* exits_set.fire_floor_field, fire_distance_grid and risky_cells_grid,
                             \* kept as the fire grid they were last computed from

vars == << cli_args, obstacle_grid, exits_only_grid, exits_set, initial_fire_grid, fire_grid,
           static_floor_field, pedestrian_set, pedestrian_position_grid, heatmap_grid,
           number_timesteps, timesteps_mod_interval,
           has_the_fire_spread, simu_index, output, pc,
           auxiliary_file, simulation_set_index, returned_value, dynamic_floor_field,
           fire_floor_field >>

\* What run_simulations leaves alone.
main_vars == << auxiliary_file, simulation_set_index, returned_value, dynamic_floor_field >>

AllCells == Cells(cli_args.global_line_number, cli_args.global_column_number)

is_within_grid_lines(l) == l >= 0 /\ l < cli_args.global_line_number

is_within_grid_columns(c) == c >= 0 /\ c < cli_args.global_column_number

Ids == 1 .. Len(pedestrian_set)

\* create_pedestrian followed by add_new_pedestrian, for the k-th pedestrian of the file.
create_pedestrian(ped_coordinates, k) ==
  [ id |-> k, state |-> "MOVING", origin |-> ped_coordinates, previous |-> ped_coordinates,
    current |-> ped_coordinates, target |-> Loc(-1, -1) ]

\* The k (1..n) for which the k-th pedestrian of the file stands on cell x, else 0.
PedestrianAt(peds, x) ==
  IF \E k \in 1 .. Len(peds) : peds[k] = x
  THEN CHOOSE k \in 1 .. Len(peds) : peds[k] = x /\ \A j \in 1 .. Len(peds) : peds[j] = x => j <= k
  ELSE 0

\* The state load_environment leaves: grids allocated and filled from the file,
\* exits added, one pedestrian created (and counted in the heatmap) per 'p'.
load_environment(a) ==
  LET cells == Cells(a.global_line_number, a.global_column_number)
      exit_cells == UNION {{a.exits[e][i] : i \in 1 .. Len(a.exits[e])} : e \in 1 .. Len(a.exits)}
  IN
  /\ cli_args = a
  /\ obstacle_grid = [x \in cells |-> IF x \in a.obstacles THEN IMPASSABLE_OBJECT ELSE EMPTY_CELL]
  /\ exits_only_grid = [x \in cells |-> IF x \in exit_cells THEN EXIT_CELL ELSE EMPTY_CELL]
  /\ exits_set = [e \in 1 .. Len(a.exits) |-> [coordinates |-> a.exits[e], is_blocked_by_fire |-> FALSE]]
  /\ initial_fire_grid = [x \in cells |-> IF x \in a.fire THEN FIRE_CELL ELSE EMPTY_CELL]
  /\ fire_grid = [x \in cells |-> IF x \in a.fire THEN FIRE_CELL ELSE EMPTY_CELL]
  /\ static_floor_field = [x \in cells |-> 0]
  /\ pedestrian_set = [k \in 1 .. Len(a.pedestrians) |-> create_pedestrian(a.pedestrians[k], k)]
  /\ pedestrian_position_grid = [x \in cells |-> PedestrianAt(a.pedestrians, x)]
  /\ heatmap_grid = [x \in cells |-> Cardinality({k \in 1 .. Len(a.pedestrians) : a.pedestrians[k] = x})]
  /\ number_timesteps = 0
  /\ timesteps_mod_interval = 0
  /\ has_the_fire_spread = FALSE
  /\ simu_index = 0
  /\ output = << >>
  /\ dynamic_floor_field = [x \in cells |-> 0]
  /\ fire_floor_field = [x \in cells |-> EMPTY_CELL]

\* The state at the call of run_simulations for the only simulation set of an
\* environment with static exits, all of them accessible.
InitWith(a) ==
  /\ load_environment(a)
  /\ auxiliary_file = << >>
  /\ simulation_set_index = 0
  /\ returned_value = "SUCCESS"
  /\ pc = "simulation"

Init == \E a \in Configurations : InitWith(a)


(* ---------------- exits and the static floor field ---------------- *)

non_diagonal_modifiers == << Loc(-1, 0), Loc(0, -1), Loc(0, 1), Loc(1, 0) >>

SeqToSet(q) == {q[i] : i \in 1 .. Len(q)}

\* An exit is blocked by fire iff every orthogonal neighbour of every one of its
\* cells is an obstacle, another exit cell or a fire cell.
is_exit_blocked(an_exit, exits_grid, fire) ==
  \A x \in SeqToSet(an_exit.coordinates) : \A m \in 1 .. 4 :
    LET n == Loc(x[1] + non_diagonal_modifiers[m][1], x[2] + non_diagonal_modifiers[m][2])
    IN  (is_within_grid_lines(n[1]) /\ is_within_grid_columns(n[2]))
          => \/ obstacle_grid[n] = IMPASSABLE_OBJECT
             \/ exits_grid[n] # EMPTY_CELL
             \/ fire[n] = FIRE_CELL

\* check_for_exits_blocked_by_fire: the exits list with the flags set.
check_for_exits_blocked_by_fire(exits, exits_grid, fire) ==
  [e \in 1 .. Len(exits) |->
     [exits[e] EXCEPT !.is_blocked_by_fire = is_exit_blocked(exits[e], exits_grid, fire)]]

\* The exits-only grid that goes with the flags of the exits list.
mark_blocked_exits(exits, exits_grid) ==
  [x \in DOMAIN exits_grid |->
     IF \E e \in 1 .. Len(exits) : x \in SeqToSet(exits[e].coordinates)
     THEN IF \E e \in 1 .. Len(exits) :
               x \in SeqToSet(exits[e].coordinates) /\ exits[e].is_blocked_by_fire
          THEN BLOCKED_EXIT_CELL ELSE EXIT_CELL
     ELSE exits_grid[x]]

\* reset_exits: every flag cleared.
reset_exits(exits) ==
  [e \in 1 .. Len(exits) |-> [exits[e] EXCEPT !.is_blocked_by_fire = FALSE]]

extract_non_blocked_exit_coordinates(exits) ==
  UNION {SeqToSet(exits[e].coordinates) : e \in {k \in 1 .. Len(exits) : ~exits[k].is_blocked_by_fire}}

\* The square of euclidean_distance.
SquaredDistance(first, second) ==
  (first[1] - second[1]) * (first[1] - second[1]) + (first[2] - second[2]) * (first[2] - second[2])

\* The least squared distance from x to a cell of the list, UNSET_DISTANCE for an empty list.
ClosestSquaredDistance(x, exit_cell_coordinates) ==
  IF exit_cell_coordinates = {} THEN UNSET_DISTANCE
  ELSE CHOOSE d \in {SquaredDistance(e, x) : e \in exit_cell_coordinates} :
         \A e \in exit_cell_coordinates : d <= SquaredDistance(e, x)

\* calculate_zheng_static_field.  A blocked exit, an obstacle and a fire cell hold
\* their sentinel.  Every other cell holds 1 / (d + 1) / sum, d the distance to the
\* closest cell of the list: it is kept as d * d (a value >= 0), and as
\* UNSET_DISTANCE when the list is empty (the program then computes 1 / (-1 + 1)).
calculate_zheng_static_field(exit_cell_coordinates, exits_grid, fire) ==
  [x \in DOMAIN exits_grid |->
     IF exits_grid[x] # EXIT_CELL /\ exits_grid[x] = BLOCKED_EXIT_CELL THEN BLOCKED_EXIT_CELL
     ELSE IF exits_grid[x] # EXIT_CELL /\ obstacle_grid[x] = IMPASSABLE_OBJECT THEN IMPASSABLE_OBJECT
     ELSE IF exits_grid[x] # EXIT_CELL /\ fire[x] = FIRE_CELL THEN FIRE_CELL
     ELSE ClosestSquaredDistance(x, exit_cell_coordinates)]

\* A static_field_calculation that takes the fire of the start of the simulation.
static_field_calculation_of_the_initial_fire(exits, exits_grid, fire) ==
  calculate_zheng_static_field(extract_non_blocked_exit_coordinates(exits), exits_grid,
                               initial_fire_grid)

\* static_field_calculation of main.c.
static_field_calculation(exits, exits_grid, fire) ==
  calculate_zheng_static_field(extract_non_blocked_exit_coordinates(exits), exits_grid, fire)

(* ---------------- transition probabilities ---------------- *)

\* A neighbourhood whose first cell is a diagonal one.
cross_modifiers_with_a_diagonal == << Loc(-1, -1), Loc(0, -1), Loc(0, 0), Loc(0, 1), Loc(1, 0) >>

\* The neighbourhood in the order the two loops over probabilities[3][3] visit it;
\* the diagonal entries are never written and stay 0.
cross_modifiers == << Loc(-1, 0), Loc(0, -1), Loc(0, 0), Loc(0, 1), Loc(1, 0) >>

\* sum_of_all_distances: "finite" when there is a cell of the exit list, "inf" when
\* there is none and some cell holds 1 / 0, "zero" when no cell holds a value.
SumOfAllDistances(field) ==
  IF \E x \in DOMAIN field : field[x] >= 0 THEN "finite"
  ELSE IF \E x \in DOMAIN field : field[x] = UNSET_DISTANCE THEN "inf"
  ELSE "zero"

\* exp(ks * S) for the static value S of a cell: "pos", "zero" (underflow), "tiny"
\* (positive but below the resolution of the float draw) or "nan".
StaticFactor(field, x, ks) ==
  LET v == field[x] IN
  IF v >= 0 THEN "pos"
  ELSE IF v = UNSET_DISTANCE THEN "nan"                         \* (1 / 0) / inf
  ELSE IF v = BLOCKED_EXIT_CELL THEN                            \* the sentinel divided by the sum
     CASE SumOfAllDistances(field) = "finite" -> IF ks = 0 THEN "pos" ELSE "tiny"
       [] SumOfAllDistances(field) = "inf" -> "pos"
       [] OTHER -> IF ks = 0 THEN "nan" ELSE "zero"
  ELSE IF ks * v < EXP_UNDERFLOW THEN "zero" ELSE "pos"         \* a raw sentinel

TimesZero(w) == IF w = "nan" THEN "nan" ELSE "zero"

\* A calculate_transition_probabilities without the factor of the occupied cells.
Probability_ignoring_occupancy(ped, m) ==
  LET x == Loc(ped.current[1] + cross_modifiers[m][1], ped.current[2] + cross_modifiers[m][2]) IN
  IF ~is_within_grid_lines(x[1]) \/ ~is_within_grid_columns(x[2]) THEN "zero"
  ELSE LET w1 == StaticFactor(static_floor_field, x, cli_args.ks)
       IN  IF static_floor_field[x] = WALL_CELL THEN TimesZero(w1) ELSE w1

\* probabilities[i][j] of calculate_transition_probabilities before the normalisation,
\* for the m-th cell of the cross.
Probability(ped, m) ==
  LET x == Loc(ped.current[1] + cross_modifiers[m][1], ped.current[2] + cross_modifiers[m][2]) IN
  IF ~is_within_grid_lines(x[1]) \/ ~is_within_grid_columns(x[2]) THEN "zero"
  ELSE LET w1 == StaticFactor(static_floor_field, x, cli_args.ks)
           w2 == IF m # 3 /\ pedestrian_position_grid[x] > 0 THEN TimesZero(w1) ELSE w1
       IN  IF static_floor_field[x] = WALL_CELL THEN TimesZero(w2) ELSE w2

\* calculate_transition_probabilities followed by transition_selection: the cells
\* the selection can return, over all values of the draw.  A NaN entry or a zero
\* sum makes every entry NaN, no comparison succeeds and the current cell is
\* returned.  Otherwise the draw falls under an entry that is not negligible, or is
\* 0 and falls under the first nonzero entry.
TargetChoices(ped) ==
  LET nonzero == {m \in 1 .. 5 : Probability(ped, m) # "zero"}
      x(m) == Loc(ped.current[1] + cross_modifiers[m][1], ped.current[2] + cross_modifiers[m][2])
  IN  IF nonzero = {} \/ \E m \in 1 .. 5 : Probability(ped, m) = "nan"
      THEN {ped.current}
      ELSE {x(m) : m \in {k \in nonzero :
                            \/ Probability(ped, k) = "pos"
                            \/ \A j \in nonzero : Probability(ped, j) # "pos"
                            \/ \A j \in nonzero : k <= j}}


(* ---------------- fire ---------------- *)

moore_modifiers == << Loc(-1, -1), Loc(-1, 0), Loc(-1, 1), Loc(0, -1),
                      Loc(0, 1), Loc(1, -1), Loc(1, 0), Loc(1, 1) >>

is_cell_with_fire(fire, x) == fire[x] = FIRE_CELL

\* A zheng_fire_propagation that does not write the burning cell itself into aux.
fire_propagation_without_source(fire) ==
  [x \in DOMAIN fire |->
     IF /\ obstacle_grid[x] = EMPTY_CELL
        /\ \E mm \in 1 .. 8 :
             LET y == Loc(x[1] - moore_modifiers[mm][1], x[2] - moore_modifiers[mm][2])
             IN  y \in DOMAIN fire /\ is_cell_with_fire(fire, y)
     THEN FIRE_CELL ELSE EMPTY_CELL]

\* A zheng_fire_propagation that writes only the cells the fire reaches anew.
fire_propagation_of_the_front(fire) ==
  [x \in DOMAIN fire |->
     IF /\ ~is_cell_with_fire(fire, x)
        /\ obstacle_grid[x] = EMPTY_CELL
        /\ \E mm \in 1 .. 8 :
             LET y == Loc(x[1] - moore_modifiers[mm][1], x[2] - moore_modifiers[mm][2])
             IN  y \in DOMAIN fire /\ is_cell_with_fire(fire, y)
     THEN FIRE_CELL ELSE EMPTY_CELL]

\* zheng_fire_propagation: the grid copied back from aux.
zheng_fire_propagation(fire) ==
  [x \in DOMAIN fire |->
     IF \/ is_cell_with_fire(fire, x)
        \/ /\ obstacle_grid[x] = EMPTY_CELL
           /\ \E mm \in 1 .. 8 :
                LET y == Loc(x[1] - moore_modifiers[mm][1], x[2] - moore_modifiers[mm][2])
                IN  y \in DOMAIN fire /\ is_cell_with_fire(fire, y)
     THEN FIRE_CELL ELSE EMPTY_CELL]

(* ---------------- pedestrians ---------------- *)

is_environment_empty == \A p \in Ids : pedestrian_set[p].state = "GOT_OUT"

\* identify_pedestrian_conflicts from pedestrian p_index on: the conflict list,
\* given the conflict grid and the list built so far.
RECURSIVE identify_pedestrian_conflicts(_, _, _)
identify_pedestrian_conflicts(p_index, conflict_grid, conflict_list) ==
  IF p_index > Len(pedestrian_set) THEN conflict_list
  ELSE LET current_pedestrian == pedestrian_set[p_index]
           target_cell == conflict_grid[current_pedestrian.target]
       IN  IF current_pedestrian.state # "MOVING"
           THEN identify_pedestrian_conflicts(p_index + 1, conflict_grid, conflict_list)
           ELSE IF target_cell = 0
           THEN identify_pedestrian_conflicts(p_index + 1,
                  [conflict_grid EXCEPT ![current_pedestrian.target] = current_pedestrian.id],
                  conflict_list)
           ELSE IF target_cell > 0
           THEN identify_pedestrian_conflicts(p_index + 1,
                  [conflict_grid EXCEPT ![current_pedestrian.target] = (Len(conflict_list) + 1) * (-1)],
                  Append(conflict_list,
                         [ pedestrian_ids |-> << target_cell, current_pedestrian.id >>,
                           num_pedestrians |-> 2, pedestrian_allowed |-> 0 ]))
           ELSE LET conflict_index == (target_cell * (-1)) - 1 IN
                identify_pedestrian_conflicts(p_index + 1, conflict_grid,
                  [conflict_list EXCEPT ![conflict_index + 1] =
                     [ @ EXCEPT !.pedestrian_ids = Append(@, current_pedestrian.id),
                                !.num_pedestrians = @ + 1 ]])

\* rand_within_limits(0, total_probability), counted in halves: 0, 1/2, 1, ... , total.
DrawValues(total_probability) == 0 .. 2 * total_probability

\* A roulette_wheel_selection that returns at the first valid index whatever is drawn.
roulette_first_valid(probability_list, length, draw_value) ==
  IF \E i \in 0 .. length - 1 : probability_list[i + 1] # 0
  THEN CHOOSE i \in 0 .. length - 1 :
         probability_list[i + 1] # 0 /\ \A j \in 0 .. i - 1 : probability_list[j + 1] = 0
  ELSE -1

\* The sum of the first i weights.
RECURSIVE current_sum(_, _)
current_sum(probability_list, i) ==
  IF i = 0 THEN 0 ELSE current_sum(probability_list, i - 1) + probability_list[i]

\* roulette_wheel_selection for a draw of draw_value halves: the first index of a
\* weight that is not 0 at which the draw is within the sum so far (TOLERANCE is
\* below any difference of these values), else the last such index, else -1.
roulette_wheel_selection(probability_list, length, draw_value) ==
  LET valid == {i \in 0 .. length - 1 : probability_list[i + 1] # 0}
      reached == {i \in valid : draw_value <= 2 * current_sum(probability_list, i + 1)}
  IN  IF reached # {} THEN CHOOSE i \in reached : \A j \in reached : i <= j
      ELSE IF valid # {} THEN CHOOSE i \in valid : \A j \in valid : j <= i
      ELSE -1

\* The results of the roulette of a conflict of n pedestrians, n weights of 1.
RouletteResults(n) ==
  {roulette_wheel_selection([i \in 1 .. n |-> 1], n, draw_value) : draw_value \in DrawValues(n)}

\* A solve_pedestrian_conflicts whose inner loop starts at p_index = 1.
solve_conflicts_from_second(conflict_list, random_result) ==
  [p \in Ids |->
     IF \E k \in 1 .. Len(conflict_list) : \E p_index \in 1 .. conflict_list[k].num_pedestrians - 1 :
          /\ conflict_list[k].pedestrian_ids[p_index + 1] - 1 = p - 1
          /\ random_result[k] # p_index
     THEN [pedestrian_set[p] EXCEPT !.state = "STOPPED"]
     ELSE pedestrian_set[p]]

\* solve_pedestrian_conflicts: the pedestrian list with every pedestrian of a
\* conflict but the allowed one stopped; random_result[k] is the result of the
\* roulette of the k-th conflict.
solve_pedestrian_conflicts(conflict_list, random_result) ==
  [p \in Ids |->
     IF \E k \in 1 .. Len(conflict_list) : \E p_index \in 0 .. conflict_list[k].num_pedestrians - 1 :
          /\ conflict_list[k].pedestrian_ids[p_index + 1] - 1 = p - 1
          /\ random_result[k] # p_index
     THEN [pedestrian_set[p] EXCEPT !.state = "STOPPED"]
     ELSE pedestrian_set[p]]

\* An apply_pedestrian_movement that does not look at immediate_exit.
moved_pedestrian_always_leaving(ped) ==
  IF ped.state = "GOT_OUT" \/ ped.state = "STOPPED" THEN ped
  ELSE IF ped.state = "MOVING"
  THEN [ped EXCEPT
          !.previous = IF ped.current # ped.target THEN ped.current ELSE @,
          !.current = ped.target,
          !.state = IF exits_only_grid[ped.target] = EXIT_CELL THEN "LEAVING" ELSE @]
  ELSE IF ped.state = "LEAVING" THEN [ped EXCEPT !.state = "GOT_OUT"]
  ELSE ped

\* An apply_pedestrian_movement that moves the pedestrians that were stopped too.
moved_pedestrian_without_conflicts(ped) ==
  IF ped.state = "GOT_OUT" THEN ped
  ELSE IF ped.state = "MOVING" \/ ped.state = "STOPPED"
  THEN [ped EXCEPT
          !.previous = IF ped.current # ped.target THEN ped.current ELSE @,
          !.current = ped.target,
          !.state = IF exits_only_grid[ped.target] = EXIT_CELL
                    THEN (IF cli_args.immediate_exit THEN "GOT_OUT" ELSE "LEAVING")
                    ELSE @]
  ELSE IF ped.state = "LEAVING" THEN [ped EXCEPT !.state = "GOT_OUT"]
  ELSE ped

\* An apply_pedestrian_movement that lets a LEAVING pedestrian out only while its
\* cell is EXIT in the exits-only grid.
moved_pedestrian_kept_in_a_blocked_exit(ped) ==
  IF ped.state = "GOT_OUT" \/ ped.state = "STOPPED" THEN ped
  ELSE IF ped.state = "MOVING"
  THEN [ped EXCEPT
          !.previous = IF ped.current # ped.target THEN ped.current ELSE @,
          !.current = ped.target,
          !.state = IF exits_only_grid[ped.target] = EXIT_CELL
                    THEN (IF cli_args.immediate_exit THEN "GOT_OUT" ELSE "LEAVING")
                    ELSE @]
  ELSE IF ped.state = "LEAVING" /\ exits_only_grid[ped.current] = EXIT_CELL
  THEN [ped EXCEPT !.state = "GOT_OUT"]
  ELSE ped

\* apply_pedestrian_movement, for one pedestrian.
moved_pedestrian(ped) ==
  IF ped.state = "GOT_OUT" \/ ped.state = "STOPPED" THEN ped
  ELSE IF ped.state = "MOVING"
  THEN [ped EXCEPT
          !.previous = IF ped.current # ped.target THEN ped.current ELSE @,
          !.current = ped.target,
          !.state = IF exits_only_grid[ped.target] = EXIT_CELL
                    THEN (IF cli_args.immediate_exit THEN "GOT_OUT" ELSE "LEAVING")
                    ELSE @]
  ELSE IF ped.state = "LEAVING" THEN [ped EXCEPT !.state = "GOT_OUT"]
  ELSE ped

\* An update_pedestrian_position_grid that does not skip the pedestrians that got out.
position_grid_with_got_out(peds) ==
  [x \in AllCells |->
     LET here == {p \in 1 .. Len(peds) : peds[p].current = x}
     IN  IF here = {} THEN 0 ELSE peds[CHOOSE p \in here : \A q \in here : q <= p].id]

\* The grid update_pedestrian_position_grid leaves: the pedestrians still in the
\* environment are written in list order, a later one over an earlier one.
position_grid_of(peds) ==
  [x \in AllCells |->
     LET here == {p \in 1 .. Len(peds) : peds[p].state # "GOT_OUT" /\ peds[p].current = x}
     IN  IF here = {} THEN 0 ELSE peds[CHOOSE p \in here : \A q \in here : q <= p].id]

\* An update_pedestrian_position_grid that counts the pedestrians that got out too.
heatmap_with_got_out(heat, peds) ==
  IF number_timesteps >= MaxT THEN [x \in {} |-> 0]
  ELSE [x \in DOMAIN heat |->
          heat[x] + Cardinality({p \in 1 .. Len(peds) : peds[p].current = x})]

\* The heatmap update_pedestrian_position_grid leaves.  heatmap_grid is kept for the
\* first MaxT time steps of a simulation; from then on it maps no cell.
heatmap_of(heat, peds) ==
  IF number_timesteps >= MaxT THEN [x \in {} |-> 0]
  ELSE [x \in DOMAIN heat |->
          heat[x] + Cardinality({p \in 1 .. Len(peds) :
                                   peds[p].state # "GOT_OUT" /\ peds[p].current = x})]

(* ---------------- the steps of run_simulations ---------------- *)

\* The start of one simulation, up to the head of the time-step loop.
start_simulation ==
  /\ pc = "simulation"
  /\ fire_grid' = initial_fire_grid
  /\ fire_floor_field' = initial_fire_grid
  /\ static_floor_field' = static_field_calculation(exits_set, exits_only_grid, initial_fire_grid)
  /\ number_timesteps' = 0
  /\ timesteps_mod_interval' = 0
  /\ has_the_fire_spread' = FALSE
  /\ pc' = "loop"
  /\ UNCHANGED << main_vars, cli_args, obstacle_grid, exits_only_grid, exits_set, initial_fire_grid,
                  pedestrian_set, pedestrian_position_grid, heatmap_grid, simu_index, output >>

\* The head of a time step: the exits and the static field are looked at again
\* only when the fire has spread in the step before.
begin_timestep ==
  /\ pc = "loop"
  /\ ~is_environment_empty
  /\ LET exits == IF has_the_fire_spread
                  THEN check_for_exits_blocked_by_fire(exits_set, exits_only_grid, fire_grid)
                  ELSE exits_set
         exits_grid == IF has_the_fire_spread THEN mark_blocked_exits(exits, exits_only_grid)
                       ELSE exits_only_grid
     IN  /\ exits_set' = exits
         /\ exits_only_grid' = exits_grid
         /\ static_floor_field' = IF has_the_fire_spread
                                  THEN static_field_calculation(exits, exits_grid, fire_grid)
                                  ELSE static_floor_field
  /\ has_the_fire_spread' = FALSE
  /\ pc' = "evaluate"
  /\ UNCHANGED << main_vars, cli_args, obstacle_grid, initial_fire_grid, fire_floor_field, fire_grid, pedestrian_set,
                  pedestrian_position_grid, heatmap_grid, number_timesteps,
                  timesteps_mod_interval, simu_index, output >>

\* The target lists evaluate_pedestrians_movements can leave for the first k
\* pedestrians: a pedestrian that is not MOVING keeps its target.
RECURSIVE Targets(_)
Targets(k) ==
  IF k = 0 THEN {<< >>}
  ELSE {Append(t, d) : t \in Targets(k - 1),
                       d \in IF pedestrian_set[k].state # "MOVING" THEN {pedestrian_set[k].target}
                             ELSE TargetChoices(pedestrian_set[k])}

evaluate_pedestrians_movements ==
  /\ pc = "evaluate"
  /\ \E t \in Targets(Len(pedestrian_set)) :
       pedestrian_set' = [p \in Ids |-> [pedestrian_set[p] EXCEPT !.target = t[p]]]
  /\ pc' = "conflict"
  /\ UNCHANGED << main_vars, cli_args, obstacle_grid, exits_only_grid, exits_set, initial_fire_grid, fire_floor_field, fire_grid,
                  static_floor_field, pedestrian_position_grid, heatmap_grid, number_timesteps,
                  timesteps_mod_interval, has_the_fire_spread, simu_index, output >>

\* The results the roulettes of the first k conflicts can have.
RECURSIVE RandomResults(_, _)
RandomResults(conflict_list, k) ==
  IF k = 0 THEN {<< >>}
  ELSE {Append(r, d) : r \in RandomResults(conflict_list, k - 1),
                       d \in RouletteResults(conflict_list[k].num_pedestrians)}

conflict_solving ==
  /\ pc = "conflict"
  /\ LET conflict_list == identify_pedestrian_conflicts(1, [x \in AllCells |-> 0], << >>)
     IN  \E random_result \in RandomResults(conflict_list, Len(conflict_list)) :
           pedestrian_set' = solve_pedestrian_conflicts(conflict_list, random_result)
  /\ pc' = "apply"
  /\ UNCHANGED << main_vars, cli_args, obstacle_grid, exits_only_grid, exits_set, initial_fire_grid, fire_floor_field, fire_grid,
                  static_floor_field, pedestrian_position_grid, heatmap_grid, number_timesteps,
                  timesteps_mod_interval, has_the_fire_spread, simu_index, output >>

apply_pedestrian_movement ==
  /\ pc = "apply"
  /\ pedestrian_set' = [p \in Ids |-> moved_pedestrian(pedestrian_set[p])]
  /\ pc' = "update"
  /\ UNCHANGED << main_vars, cli_args, obstacle_grid, exits_only_grid, exits_set, initial_fire_grid, fire_floor_field, fire_grid,
                  static_floor_field, pedestrian_position_grid, heatmap_grid, number_timesteps,
                  timesteps_mod_interval, has_the_fire_spread, simu_index, output >>

update_pedestrian_position_grid ==
  /\ pc = "update"
  /\ pedestrian_position_grid' = position_grid_of(pedestrian_set)
  /\ heatmap_grid' = heatmap_of(heatmap_grid, pedestrian_set)
  /\ pc' = "reset"
  /\ UNCHANGED << main_vars, cli_args, obstacle_grid, exits_only_grid, exits_set, initial_fire_grid, fire_floor_field, fire_grid,
                  static_floor_field, pedestrian_set, number_timesteps,
                  timesteps_mod_interval, has_the_fire_spread, simu_index, output >>

\* A reset_pedestrian_state that changes no state.
reset_state_of_nobody(ped) == ped

\* A reset that leaves the loser of a conflict STOPPED.
reset_state_leaving_the_stopped(ped) ==
  IF ped.state = "MOVING" THEN [ped EXCEPT !.state = "MOVING"] ELSE ped

\* reset_pedestrian_state, for one pedestrian.
reset_state(ped) ==
  IF ped.state # "GOT_OUT" /\ ped.state # "LEAVING" THEN [ped EXCEPT !.state = "MOVING"] ELSE ped

\* reset_pedestrian_state and the count of the time step.  A spread interval above
\* MaxT is one the run does not reach: its residue does not come back to 0.
\* A remainder by an interval of 0 is undefined: where the division does not trap it
\* leaves 0 or the dividend.
reset_pedestrian_state ==
  /\ pc = "reset"
  /\ pedestrian_set' = [p \in Ids |-> reset_state(pedestrian_set[p])]
  /\ number_timesteps' = Min(MaxT, number_timesteps + 1)
  /\ timesteps_mod_interval' \in
       IF cli_args.fire_spread_interval = 0
       THEN {0, Min(MaxT, number_timesteps + 1)}
       ELSE IF cli_args.fire_spread_interval > MaxT
            THEN {Min(MaxT, timesteps_mod_interval + 1)}
            ELSE {(timesteps_mod_interval + 1) % cli_args.fire_spread_interval}
  /\ pc' = "spread"
  /\ UNCHANGED << main_vars, cli_args, obstacle_grid, exits_only_grid, exits_set, initial_fire_grid, fire_floor_field, fire_grid,
                  static_floor_field, pedestrian_position_grid, heatmap_grid,
                  has_the_fire_spread, simu_index, output >>

\* A test of the spread that does not look at fire_is_present.
is_spread_due_without_fire(mod_interval) == mod_interval = 0

\* number_timesteps % fire_spread_interval == 0 && cli_args.fire_is_present, for the
\* residue of number_timesteps.
is_spread_due(mod_interval) == mod_interval = 0 /\ cli_args.fire_is_present

\* The end of a time step: the fire spreads every fire_spread_interval steps.
fire_spread ==
  /\ pc = "spread"
  /\ LET spreads == is_spread_due(timesteps_mod_interval)
     IN  /\ fire_grid' = IF spreads THEN zheng_fire_propagation(fire_grid) ELSE fire_grid
         /\ fire_floor_field' = IF spreads THEN zheng_fire_propagation(fire_grid)
                                ELSE fire_floor_field
         /\ has_the_fire_spread' = IF spreads THEN TRUE ELSE has_the_fire_spread
  /\ pc' = "loop"
  /\ UNCHANGED << main_vars, cli_args, obstacle_grid, exits_only_grid, exits_set, initial_fire_grid,
                  static_floor_field, pedestrian_set, pedestrian_position_grid, heatmap_grid,
                  number_timesteps, timesteps_mod_interval, simu_index, output >>

\* A reset that keeps the cell the pedestrian was on as its previous cell.
reset_pedestrians_structures_keeping_previous(peds) ==
  [p \in 1 .. Len(peds) |->
     [peds[p] EXCEPT !.previous = peds[p].current, !.current = peds[p].origin, !.state = "MOVING"]]

\* reset_pedestrians_structures, for the whole list.
reset_pedestrians_structures(peds) ==
  [p \in 1 .. Len(peds) |->
     [peds[p] EXCEPT !.previous = peds[p].origin, !.current = peds[p].origin, !.state = "MOVING"]]

\* The exit of the loop: the structures are reset and the evacuation time is written.
end_simulation ==
  /\ pc = "loop"
  /\ is_environment_empty
  /\ pedestrian_set' = reset_pedestrians_structures(pedestrian_set)
  /\ pedestrian_position_grid' =
        [x \in AllCells |->
           LET here == {p \in Ids : pedestrian_set[p].origin = x}
           IN  IF here = {} THEN 0 ELSE pedestrian_set[CHOOSE p \in here : \A q \in here : q <= p].id]
  /\ exits_set' = reset_exits(exits_set)
  /\ exits_only_grid' = mark_blocked_exits(reset_exits(exits_set), exits_only_grid)
  /\ output' = Append(output, number_timesteps)
  /\ simu_index' = simu_index + 1
  /\ pc' = IF simu_index + 1 < cli_args.num_simulations THEN "simulation" ELSE "done"
  /\ UNCHANGED << main_vars, cli_args, obstacle_grid, initial_fire_grid, fire_floor_field, fire_grid, static_floor_field,
                  heatmap_grid, number_timesteps, timesteps_mod_interval, has_the_fire_spread >>

Next ==
  \/ start_simulation
  \/ begin_timestep
  \/ evaluate_pedestrians_movements
  \/ conflict_solving
  \/ apply_pedestrian_movement
  \/ update_pedestrian_position_grid
  \/ reset_pedestrian_state
  \/ fire_spread
  \/ end_simulation

Spec == Init /\ [][Next]_vars


(* ---------------- the simulation sets of main ---------------- *)

\* A 4x4 room with an obstacle on (1, 1) and a pedestrian on (2, 2).  Its exits are
\* the '_' of the environment file (origin with static exits) or the simulation
\* sets of the auxiliary file (every other origin).
StructureRoom(origin, underscores, sets) ==
  [ environment_filename |-> "structure_room", global_line_number |-> 4,
    global_column_number |-> 4, obstacles |-> Boundary(4, 4) \cup {Loc(1, 1)},
    exits |-> [k \in 1 .. Len(underscores) |-> << underscores[k] >>], fire |-> {},
    pedestrians |-> << Loc(2, 2) >>, immediate_exit |-> TRUE, fire_is_present |-> FALSE,
    fire_spread_interval |-> 2, ks |-> 1, mu |-> 0,
    environment_origin |-> origin, auxiliary |-> sets, num_simulations |-> 2 ]

\* The '_' cells of the environment files with static exits: none, one in front of
\* an empty cell, one in a corner, one behind the obstacle.
StaticExits ==
  { << >>, << Loc(2, 0) >>, << Loc(3, 3) >>, << Loc(0, 1) >>, << Loc(1, 0), Loc(2, 0) >>,
    << Loc(2, 0), Loc(3, 3) >> }

\* The exits an auxiliary file names: width 1 or 2, in front of an empty cell, in
\* a corner, behind the obstacle, on an empty cell in the middle of the room.
AuxiliaryExits ==
  { << Loc(2, 0) >>, << Loc(3, 3) >>, << Loc(0, 1) >>, << Loc(0, 0), Loc(0, 1) >>,
    << Loc(1, 0), Loc(2, 0) >>, << Loc(1, 2) >> }

\* A simulation set is a line of one or two exits.
AuxiliarySets ==
  {<< e >> : e \in AuxiliaryExits} \cup {<< e, f >> : e \in {<< Loc(2, 0) >>}, f \in AuxiliaryExits}

\* An auxiliary file is one or two lines.
AuxiliaryFiles ==
  {<< a >> : a \in AuxiliarySets} \cup {<< a, b >> : a \in AuxiliarySets, b \in AuxiliarySets}

StructureRooms ==
  {StructureRoom("STRUCTURE_DOORS_AND_PEDESTRIANS", u, << >>) : u \in StaticExits}
  \cup {StructureRoom("STRUCTURE_AND_PEDESTRIANS", << >>, f) : f \in AuxiliaryFiles}

origin_uses_auxiliary_data ==
  cli_args.environment_origin \in {"ONLY_STRUCTURE", "STRUCTURE_AND_PEDESTRIANS", "AUTOMATIC_CREATED"}

origin_uses_static_exits ==
  cli_args.environment_origin \in {"STRUCTURE_AND_DOORS", "STRUCTURE_DOORS_AND_PEDESTRIANS"}

\* The state of main at the head of its loop over the simulation sets.
InitMain ==
  \E a \in StructureRooms :
    /\ load_environment(a)
    /\ auxiliary_file = a.auxiliary
    /\ simulation_set_index = 0
    /\ returned_value = "SUCCESS"
    /\ pc = "set"

\* initialize_static_weight_grid: the structure of the obstacle grid with the
\* cells of the exit on it.
initialize_static_weight_grid(current_exit) ==
  [x \in AllCells |->
     IF x \in SeqToSet(current_exit.coordinates) THEN EXIT_CELL
     ELSE IF obstacle_grid[x] = IMPASSABLE_OBJECT THEN IMPASSABLE_OBJECT ELSE 0]

\* An is_exit_accessible that does not pass over the diagonals.
is_exit_accessible_by_a_diagonal(current_exit, floor_field) ==
  \E exit_cell_index \in 1 .. Len(current_exit.coordinates) : \E j \in -1 .. 1 : \E k \in -1 .. 1 :
    LET c == current_exit.coordinates[exit_cell_index] IN
    /\ is_within_grid_lines(c[1] + j)
    /\ is_within_grid_columns(c[2] + k)
    /\ ~(floor_field[Loc(c[1] + j, c[2] + k)] = IMPASSABLE_OBJECT
           \/ floor_field[Loc(c[1] + j, c[2] + k)] = EXIT_CELL)

\* is_exit_accessible: some cell of the 3x3 block around some cell of the exit is
\* within the grid, holds neither a wall nor an exit and is not on a diagonal.
is_exit_accessible(current_exit, floor_field) ==
  \E exit_cell_index \in 1 .. Len(current_exit.coordinates) : \E j \in -1 .. 1 : \E k \in -1 .. 1 :
    LET c == current_exit.coordinates[exit_cell_index] IN
    /\ is_within_grid_lines(c[1] + j)
    /\ is_within_grid_columns(c[2] + k)
    /\ ~(floor_field[Loc(c[1] + j, c[2] + k)] = IMPASSABLE_OBJECT
           \/ floor_field[Loc(c[1] + j, c[2] + k)] = EXIT_CELL)
    /\ ~(j # 0 /\ k # 0)

\* calculate_static_weight, as far as its status.
calculate_static_weight(current_exit) ==
  IF ~is_exit_accessible(current_exit, initialize_static_weight_grid(current_exit))
  THEN "INACCESSIBLE_EXIT"
  ELSE "SUCCESS"

\* calculate_all_static_weights for a list of exits: the status of the first exit
\* whose status is not SUCCESS.
calculate_all_static_weights(exits) ==
  IF Len(exits) <= 0 THEN "FAILURE"
  ELSE IF \E e \in 1 .. Len(exits) : calculate_static_weight(exits[e]) # "SUCCESS"
  THEN calculate_static_weight(exits[CHOOSE e \in 1 .. Len(exits) :
         /\ calculate_static_weight(exits[e]) # "SUCCESS"
         /\ \A f \in 1 .. e - 1 : calculate_static_weight(exits[f]) = "SUCCESS"])
  ELSE "SUCCESS"

\* The exits get_next_simulation_set adds for a line of the auxiliary file.
new_exits(simulation_set) ==
  [e \in 1 .. Len(simulation_set) |-> [coordinates |-> simulation_set[e], is_blocked_by_fire |-> FALSE]]

\* The exits-only grid get_next_simulation_set leaves for a line.
exits_only_grid_of(simulation_set) ==
  [x \in AllCells |->
     IF \E e \in 1 .. Len(simulation_set) : x \in SeqToSet(simulation_set[e])
     THEN EXIT_CELL ELSE EMPTY_CELL]

\* print_placeholder: the value, num_simulations times.
print_placeholder(placeholder) == [times \in 1 .. cli_args.num_simulations |-> placeholder]

\* The head of the loop: with auxiliary data the next line of the file is read,
\* and the loop is left when there is none.
begin_simulation_set ==
  /\ pc = "set"
  /\ simulation_set_index < MaxSets
  /\ IF origin_uses_auxiliary_data
     THEN IF auxiliary_file = << >>
          THEN /\ exits_only_grid' = [x \in AllCells |-> EMPTY_CELL]
               /\ pc' = "end"
               /\ UNCHANGED << exits_set, auxiliary_file >>
          ELSE /\ exits_only_grid' = exits_only_grid_of(Head(auxiliary_file))
               /\ exits_set' = exits_set \o new_exits(Head(auxiliary_file))
               /\ auxiliary_file' = Tail(auxiliary_file)
               /\ pc' = "weights"
     ELSE /\ pc' = "weights"
          /\ UNCHANGED << exits_only_grid, exits_set, auxiliary_file >>
  /\ UNCHANGED << cli_args, obstacle_grid, initial_fire_grid, fire_floor_field, fire_grid, static_floor_field,
                  pedestrian_set, pedestrian_position_grid, heatmap_grid, number_timesteps,
                  timesteps_mod_interval, has_the_fire_spread, simu_index, output,
                  simulation_set_index, returned_value, dynamic_floor_field >>

\* calculate_all_static_weights has returned FAILURE: the program ends.
end_program ==
  /\ pc = "weights"
  /\ calculate_all_static_weights(exits_set) = "FAILURE"
  /\ returned_value' = "FAILURE"
  /\ pc' = "end"
  /\ UNCHANGED << cli_args, obstacle_grid, exits_only_grid, exits_set, initial_fire_grid, fire_floor_field, fire_grid,
                  static_floor_field, pedestrian_set, pedestrian_position_grid, heatmap_grid,
                  number_timesteps, timesteps_mod_interval, has_the_fire_spread, simu_index,
                  output, auxiliary_file, simulation_set_index, dynamic_floor_field >>

\* The exits main has after a simulation set.
exits_after_the_set == IF origin_uses_auxiliary_data THEN << >> ELSE exits_set

\* calculate_all_static_weights has returned INACCESSIBLE_EXIT: the placeholder is
\* printed and the loop continues.
skip_simulation_set ==
  /\ pc = "weights"
  /\ calculate_all_static_weights(exits_set) = "INACCESSIBLE_EXIT"
  /\ returned_value' = "INACCESSIBLE_EXIT"
  /\ output' = output \o print_placeholder(-1)
  /\ exits_set' = exits_after_the_set
  /\ simulation_set_index' = simulation_set_index + 1
  /\ pc' = "set"
  /\ UNCHANGED << cli_args, obstacle_grid, exits_only_grid, initial_fire_grid, fire_floor_field, fire_grid,
                  static_floor_field, pedestrian_set, pedestrian_position_grid, heatmap_grid,
                  number_timesteps, timesteps_mod_interval, has_the_fire_spread, simu_index,
                  auxiliary_file, dynamic_floor_field >>

\* The evacuation times run_simulations can print for a simulation set.
EvacuationTimes == [1 .. cli_args.num_simulations -> 1 .. MaxT]

\* calculate_all_static_weights has returned SUCCESS: the simulations of the set
\* are run and their times printed; with static exits the loop is left.
run_simulation_set ==
  /\ pc = "weights"
  /\ calculate_all_static_weights(exits_set) = "SUCCESS"
  /\ returned_value' = "SUCCESS"
  /\ \E times \in EvacuationTimes : output' = output \o times
  /\ exits_set' = exits_after_the_set
  /\ simulation_set_index' = simulation_set_index + 1
  /\ pc' = IF origin_uses_static_exits THEN "end" ELSE "set"
  /\ UNCHANGED << cli_args, obstacle_grid, exits_only_grid, initial_fire_grid, fire_floor_field, fire_grid,
                  static_floor_field, pedestrian_set, pedestrian_position_grid, heatmap_grid,
                  number_timesteps, timesteps_mod_interval, has_the_fire_spread, simu_index,
                  auxiliary_file, dynamic_floor_field >>

NextMain ==
  \/ begin_simulation_set
  \/ end_program
  \/ skip_simulation_set
  \/ run_simulation_set

SpecMain == InitMain /\ [][NextMain]_vars


(* ---------------- diagonal steps ---------------- *)

\* A 4x4 room with an exit on (1, 0) and obstacles on some of its four inner cells.
DiagonalRoom(inner_obstacles, flag) ==
  [ environment_filename |-> "diagonal_room", global_line_number |-> 4,
    global_column_number |-> 4, obstacles |-> Boundary(4, 4) \cup inner_obstacles,
    exits |-> << << Loc(1, 0) >> >>, fire |-> {}, pedestrians |-> << >>,
    immediate_exit |-> TRUE, fire_is_present |-> FALSE, fire_spread_interval |-> 2,
    ks |-> 1, mu |-> 0, environment_origin |-> "STRUCTURE_AND_DOORS", auxiliary |-> << >>,
    prevent_corner_crossing |-> flag, num_simulations |-> 1 ]

DiagonalRooms ==
  {DiagonalRoom(o, flag) : o \in SUBSET {Loc(1, 1), Loc(1, 2), Loc(2, 1), Loc(2, 2)},
                           flag \in BOOLEAN}

\* An is_diagonal_valid without the test of prevent_corner_crossing.
is_diagonal_valid_without_the_flag(origin_cell, coordinate_modifier, floor_field) ==
  LET is_vertical_blocked ==
        /\ is_within_grid_lines(origin_cell[1] + coordinate_modifier[1])
        /\ floor_field[Loc(origin_cell[1] + coordinate_modifier[1], origin_cell[2])] = IMPASSABLE_OBJECT
      is_horizontal_blocked ==
        /\ is_within_grid_columns(origin_cell[2] + coordinate_modifier[2])
        /\ floor_field[Loc(origin_cell[1], origin_cell[2] + coordinate_modifier[2])] = IMPASSABLE_OBJECT
  IN  ~(is_horizontal_blocked /\ is_vertical_blocked)

\* An is_diagonal_valid that looks at the flag alone.
is_diagonal_valid_by_the_flag(origin_cell, coordinate_modifier, floor_field) ==
  ~cli_args.prevent_corner_crossing

\* is_diagonal_valid: not valid with an obstacle on both sides of the step, nor,
\* with prevent_corner_crossing, with an obstacle on one side.
is_diagonal_valid(origin_cell, coordinate_modifier, floor_field) ==
  LET is_vertical_blocked ==
        /\ is_within_grid_lines(origin_cell[1] + coordinate_modifier[1])
        /\ floor_field[Loc(origin_cell[1] + coordinate_modifier[1], origin_cell[2])] = IMPASSABLE_OBJECT
      is_horizontal_blocked ==
        /\ is_within_grid_columns(origin_cell[2] + coordinate_modifier[2])
        /\ floor_field[Loc(origin_cell[1], origin_cell[2] + coordinate_modifier[2])] = IMPASSABLE_OBJECT
  IN  IF is_horizontal_blocked /\ is_vertical_blocked THEN FALSE
      ELSE IF cli_args.prevent_corner_crossing /\ (is_vertical_blocked \/ is_horizontal_blocked)
      THEN FALSE
      ELSE TRUE

\* The diagonal steps of the 3x3 block around a cell.
diagonal_modifiers == {Loc(j, k) : j \in {-1, 1}, k \in {-1, 1}}

\* The state of calculate_static_weight before its first sweep, for the first exit.
InitDiagonal ==
  \E a \in DiagonalRooms :
    /\ load_environment(a)
    /\ auxiliary_file = << >>
    /\ simulation_set_index = 0
    /\ returned_value = "SUCCESS"
    /\ pc = "sweep"

\* The sweep of calculate_static_weight comes to a diagonal neighbour within the
\* grid and asks is_diagonal_valid for it.
consider_diagonal ==
  /\ pc \in {"sweep", "diagonal"}
  /\ \E origin_cell \in AllCells : \E coordinate_modifier \in diagonal_modifiers :
       /\ is_within_grid_lines(origin_cell[1] + coordinate_modifier[1])
       /\ is_within_grid_columns(origin_cell[2] + coordinate_modifier[2])
       /\ returned_value' =
            [ origin_cell |-> origin_cell, coordinate_modifier |-> coordinate_modifier,
              value |-> is_diagonal_valid(origin_cell, coordinate_modifier,
                                          initialize_static_weight_grid(exits_set[1])) ]
  /\ pc' = "diagonal"
  /\ UNCHANGED << cli_args, obstacle_grid, exits_only_grid, exits_set, initial_fire_grid, fire_floor_field, fire_grid,
                  static_floor_field, pedestrian_set, pedestrian_position_grid, heatmap_grid,
                  number_timesteps, timesteps_mod_interval, has_the_fire_spread, simu_index,
                  output, auxiliary_file, simulation_set_index, dynamic_floor_field >>

NextDiagonal == consider_diagonal

SpecDiagonal == InitDiagonal /\ [][NextDiagonal]_vars


(* ---------------- the dynamic floor field ---------------- *)

\* A 4x4 room with an exit on (2, 3), obstacles on (1, 2) and (2, 1), and
\* pedestrians on the walled-in cell (1, 1) and on (2, 2).  delta and alpha are
\* counted in halves: 0, 1/2, 1.
ParticleRoom(delta, alpha) ==
  [ environment_filename |-> "particle_room", global_line_number |-> 4,
    global_column_number |-> 4, obstacles |-> Boundary(4, 4) \cup {Loc(1, 2), Loc(2, 1)},
    exits |-> << << Loc(2, 3) >> >>, fire |-> {}, pedestrians |-> << Loc(1, 1), Loc(2, 2) >>,
    immediate_exit |-> TRUE, fire_is_present |-> FALSE, fire_spread_interval |-> 2,
    ks |-> 1, mu |-> 0, environment_origin |-> "STRUCTURE_DOORS_AND_PEDESTRIANS",
    auxiliary |-> << >>, delta |-> delta, alpha |-> alpha, num_simulations |-> 1 ]

ParticleRooms == {ParticleRoom(delta, alpha) : delta \in 0 .. 2, alpha \in 0 .. 2}

\* The state at the start of a simulation: no particle, the static field computed.
InitDynamic ==
  \E a \in ParticleRooms :
    /\ load_environment(a)
    /\ auxiliary_file = << >>
    /\ simulation_set_index = 0
    /\ returned_value = "SUCCESS"
    /\ pc = "simulation"

\* probability_test for a draw of draw_value halves in 0 .. 1.
probability_test(probability, draw_value) == draw_value < probability

\* The particles of the field.
TotalParticles(field) ==
  LET RECURSIVE sum_over(_)
      sum_over(cells) ==
        IF cells = {} THEN 0
        ELSE LET x == CHOOSE y \in cells : TRUE IN field[x] + sum_over(cells \ {x})
  IN  sum_over(DOMAIN field)

\* The counts decay can leave in a cell: each of the num_of_particles particles it
\* held is tested, from particle on, and value is the count so far.
RECURSIVE decay_of_cell(_, _, _)
decay_of_cell(num_of_particles, particle, value) ==
  IF particle >= num_of_particles THEN {value}
  ELSE UNION {decay_of_cell(num_of_particles, particle + 1,
                            IF probability_test(cli_args.delta, draw_value) THEN value - 1 ELSE value) :
                draw_value \in DrawValues(1)}

\* The fields decay can leave.
decay(field) ==
  LET occupied == {x \in DOMAIN field : field[x] # 0}
      left == {g \in [occupied -> 0 .. MaxParticles] :
                 \A x \in occupied : g[x] \in decay_of_cell(field[x], 0, field[x])}
  IN  {[x \in DOMAIN field |-> IF x \in occupied THEN g[x] ELSE field[x]] : g \in left}

\* The cells of the grid, line by line.
CellInOrder(k) ==
  Loc((k - 1) \div cli_args.global_column_number, (k - 1) % cli_args.global_column_number)

\* The neighbour of x that modifier m (0 .. 3) of single_diffusion leads to.
diffusion_neighbour(x, m) ==
  Loc(x[1] + non_diagonal_modifiers[m + 1][1], x[2] + non_diagonal_modifiers[m + 1][2])

\* The modifiers whose bit single_diffusion sets in valid_byte for cell x.
valid_modifiers(x) ==
  {m \in 0 .. 3 : /\ diffusion_neighbour(x, m) \in AllCells
                  /\ static_floor_field[diffusion_neighbour(x, m)] # WALL_CELL}

\* The modifier at which the scan of single_diffusion stops for chosen_index: the
\* first m by which chosen_index, one less for each valid modifier up to m, is -1.
chosen_modifier(x, chosen_index) ==
  LET stops == {m \in 0 .. 3 :
                  chosen_index - Cardinality({n \in valid_modifiers(x) : n <= m}) = -1}
  IN  IF stops = {} THEN -1 ELSE CHOOSE m \in stops : \A n \in stops : m <= n

\* The auxiliary grid after a particle of x has gone by modifier m.  A neighbour
\* outside the grid is a write outside the grid: the particle may land anywhere in
\* it or nowhere.
moved_particle(is_moving, x, m, aux) ==
  LET taken == IF is_moving THEN [aux EXCEPT ![x] = @ - 1] ELSE aux IN
  IF m = -1 THEN {aux}
  ELSE IF diffusion_neighbour(x, m) \in AllCells
  THEN {[taken EXCEPT ![diffusion_neighbour(x, m)] = @ + 1]}
  ELSE {taken} \cup {[taken EXCEPT ![y] = @ + 1] : y \in AllCells}

\* A diffusion of a particle that never takes it from its cell.
particle_diffusion_leaving_a_copy(is_moving, x, aux) ==
  UNION {IF ~probability_test(cli_args.alpha, draw_value) THEN {aux}
         ELSE UNION {moved_particle(FALSE, x,
                       chosen_modifier(x, roulette_wheel_selection(<< 1, 1, 1, 1 >>,
                                            Cardinality(valid_modifiers(x)), chosen)), aux) :
                       chosen \in DrawValues(Cardinality(valid_modifiers(x)))} :
           draw_value \in DrawValues(1)}

\* The auxiliary grids single_diffusion can have after one particle of cell x.
particle_diffusion(is_moving, x, aux) ==
  UNION {IF ~probability_test(cli_args.alpha, draw_value) THEN {aux}
         ELSE UNION {moved_particle(is_moving, x,
                       chosen_modifier(x, roulette_wheel_selection(<< 1, 1, 1, 1 >>,
                                            Cardinality(valid_modifiers(x)), chosen)), aux) :
                       chosen \in DrawValues(Cardinality(valid_modifiers(x)))} :
           draw_value \in DrawValues(1)}

\* The auxiliary grids single_diffusion can have at its end, from particle
\* `particle` of the k-th cell on.
RECURSIVE diffusion_from(_, _, _, _)
diffusion_from(is_moving, k, particle, aux) ==
  IF k > cli_args.global_line_number * cli_args.global_column_number THEN {aux}
  ELSE IF particle >= dynamic_floor_field[CellInOrder(k)] THEN diffusion_from(is_moving, k + 1, 0, aux)
  ELSE UNION {diffusion_from(is_moving, k, particle + 1, a) :
                a \in particle_diffusion(is_moving, CellInOrder(k), aux)}

\* sum_grids.
sum_grids(destination, source) == [x \in DOMAIN destination |-> destination[x] + source[x]]

increase_particle_at ==
  /\ pc \in {"increase_particle_at", "decay", "single_diffusion"}
  /\ TotalParticles(dynamic_floor_field) < MaxParticles
  /\ \E p \in Ids :
       dynamic_floor_field' = [dynamic_floor_field EXCEPT ![pedestrian_set[p].current] = @ + 1]
  /\ pc' = "increase_particle_at"
  /\ UNCHANGED << cli_args, obstacle_grid, exits_only_grid, exits_set, initial_fire_grid, fire_floor_field, fire_grid,
                  static_floor_field, pedestrian_set, pedestrian_position_grid, heatmap_grid,
                  number_timesteps, timesteps_mod_interval, has_the_fire_spread, simu_index,
                  output, auxiliary_file, simulation_set_index, returned_value >>

decay_step ==
  /\ pc \in {"increase_particle_at", "decay", "single_diffusion"}
  /\ dynamic_floor_field' \in decay(dynamic_floor_field)
  /\ pc' = "decay"
  /\ UNCHANGED << cli_args, obstacle_grid, exits_only_grid, exits_set, initial_fire_grid, fire_floor_field, fire_grid,
                  static_floor_field, pedestrian_set, pedestrian_position_grid, heatmap_grid,
                  number_timesteps, timesteps_mod_interval, has_the_fire_spread, simu_index,
                  output, auxiliary_file, simulation_set_index, returned_value >>

\* single_diffusion(true).
single_diffusion ==
  /\ pc \in {"increase_particle_at", "decay", "single_diffusion"}
  /\ \E aux \in diffusion_from(TRUE, 1, 0, [x \in AllCells |-> 0]) :
       dynamic_floor_field' = sum_grids(dynamic_floor_field, aux)
  /\ pc' = "single_diffusion"
  /\ UNCHANGED << cli_args, obstacle_grid, exits_only_grid, exits_set, initial_fire_grid, fire_floor_field, fire_grid,
                  static_floor_field, pedestrian_set, pedestrian_position_grid, heatmap_grid,
                  number_timesteps, timesteps_mod_interval, has_the_fire_spread, simu_index,
                  output, auxiliary_file, simulation_set_index, returned_value >>

\* The static field of the first time step, which single_diffusion reads.
static_field_of_the_room ==
  /\ pc = "simulation"
  /\ static_floor_field' = static_field_calculation(exits_set, exits_only_grid, initial_fire_grid)
  /\ pc' = "increase_particle_at"
  /\ UNCHANGED << cli_args, obstacle_grid, exits_only_grid, exits_set, initial_fire_grid, fire_floor_field, fire_grid,
                  pedestrian_set, pedestrian_position_grid, heatmap_grid, number_timesteps,
                  timesteps_mod_interval, has_the_fire_spread, simu_index, output,
                  auxiliary_file, simulation_set_index, returned_value, dynamic_floor_field >>

NextDynamic ==
  \/ static_field_of_the_room
  \/ increase_particle_at
  \/ decay_step
  \/ single_diffusion

SpecDynamic == InitDynamic /\ [][NextDynamic]_vars


(* ---------------- the pedestrian list ---------------- *)

\* A 4x4 room with an exit on (1, 0) and no pedestrian in its file.
EmptyStructure ==
  [ environment_filename |-> "empty_structure", global_line_number |-> 4,
    global_column_number |-> 4, obstacles |-> Boundary(4, 4),
    exits |-> << << Loc(1, 0) >> >>, fire |-> {}, pedestrians |-> << >>,
    immediate_exit |-> TRUE, fire_is_present |-> FALSE, fire_spread_interval |-> 2,
    ks |-> 1, mu |-> 0, environment_origin |-> "STRUCTURE_AND_DOORS",
    auxiliary |-> << >>, num_simulations |-> 1 ]

InitPedestrians ==
  /\ load_environment(EmptyStructure)
  /\ auxiliary_file = << >>
  /\ simulation_set_index = 0
  /\ returned_value = "SUCCESS"
  /\ pc = "simulation"

\* An add_new_pedestrian that gives the id before it counts the pedestrian.
add_new_pedestrian_before_the_count(list, ped_coordinates) ==
  Append(list, create_pedestrian(ped_coordinates, Len(list)))

\* add_new_pedestrian: the list with one more pedestrian, whose id is the new
\* num_pedestrians.
add_new_pedestrian(list, ped_coordinates) ==
  Append(list, create_pedestrian(ped_coordinates, Len(list) + 1))

\* is_cell_empty, for the position grid given.
is_cell_empty(grid, coordinates) ==
  /\ grid[coordinates] = 0
  /\ obstacle_grid[coordinates] = EMPTY_CELL
  /\ exits_only_grid[coordinates] = EMPTY_CELL
  /\ fire_grid[coordinates] = EMPTY_CELL

\* The search of insert_pedestrians_at_random for an empty cell from (line,
\* column) on.  When the last inner line holds none, line is set to 1 and the
\* increment of the loop makes it 2; a line past the last inner one ends the
\* search with no pedestrian inserted.
RECURSIVE find_empty_cell(_, _, _, _)
find_empty_cell(grid, line, column, already_looping) ==
  IF ~(line < cli_args.global_line_number - 1) THEN [status |-> "NOT_INSERTED", cell |-> Loc(-1, -1)]
  ELSE LET found == {c \in column .. cli_args.global_column_number - 2 :
                       is_cell_empty(grid, Loc(line, c))}
       IN  IF found # {}
           THEN [status |-> "SUCCESS", cell |-> Loc(line, CHOOSE c \in found : \A d \in found : c <= d)]
           ELSE IF line + 1 = cli_args.global_line_number - 1
           THEN IF already_looping THEN [status |-> "FAILURE", cell |-> Loc(-1, -1)]
                ELSE find_empty_cell(grid, 1 + 1, 1, TRUE)
           ELSE find_empty_cell(grid, line + 1, 1, already_looping)

\* insert_pedestrians_at_random from pedestrian p_index on: the status, list and
\* position grid it can end with.
RECURSIVE insert_pedestrians_at_random(_, _, _, _)
RECURSIVE insertion_after_search(_, _, _, _, _)
insert_pedestrians_at_random(p_index, num_pedestrians_to_insert, list, grid) ==
  IF p_index >= num_pedestrians_to_insert THEN {[status |-> "SUCCESS", list |-> list, grid |-> grid]}
  ELSE UNION {insertion_after_search(p_index, num_pedestrians_to_insert, list, grid, searched) :
                searched \in {find_empty_cell(grid, line, column, FALSE) :
                                line \in 1 .. cli_args.global_line_number - 1,
                                column \in 1 .. cli_args.global_column_number - 1}}

\* The rest of the loop body for pedestrian p_index, the search done.
insertion_after_search(p_index, num_pedestrians_to_insert, list, grid, searched) ==
  IF searched.status = "FAILURE" THEN {[status |-> "FAILURE", list |-> list, grid |-> grid]}
  ELSE IF searched.status = "NOT_INSERTED"
  THEN insert_pedestrians_at_random(p_index + 1, num_pedestrians_to_insert, list, grid)
  ELSE UNION {insert_pedestrians_at_random(p_index + 1, num_pedestrians_to_insert, added, marked) :
                added \in {add_new_pedestrian(list, searched.cell)},
                marked \in {[x \in AllCells |->
                               IF x = searched.cell
                               THEN add_new_pedestrian(list, searched.cell)[Len(list) + 1].id
                               ELSE grid[x]]}}

\* insert_pedestrians_at_random(total_num_pedestrians) at the start of a simulation.
random_insertion ==
  /\ pc # "end"
  /\ \E total_num_pedestrians \in 1 .. MaxPedestrians - Len(pedestrian_set) :
       \E inserted \in insert_pedestrians_at_random(0, total_num_pedestrians, pedestrian_set,
                                                    [x \in AllCells |-> 0]) :
         /\ pedestrian_set' = inserted.list
         /\ pedestrian_position_grid' = inserted.grid
         /\ returned_value' = inserted.status
         /\ pc' = IF inserted.status = "FAILURE" THEN "end" ELSE "insert_pedestrians_at_random"
  /\ UNCHANGED << cli_args, obstacle_grid, exits_only_grid, exits_set, initial_fire_grid, fire_floor_field, fire_grid,
                  static_floor_field, heatmap_grid, number_timesteps, timesteps_mod_interval,
                  has_the_fire_spread, simu_index, output, auxiliary_file, simulation_set_index,
                  dynamic_floor_field >>

\* add_new_pedestrian as symbol_processing calls it for a 'p' of an inner cell.
pedestrian_symbol ==
  /\ pc # "end"
  /\ Len(pedestrian_set) < MaxPedestrians
  /\ \E coordinates \in AllCells \ Boundary(cli_args.global_line_number, cli_args.global_column_number) :
       LET added == add_new_pedestrian(pedestrian_set, coordinates) IN
       /\ pedestrian_set' = added
       /\ pedestrian_position_grid' =
            [pedestrian_position_grid EXCEPT ![coordinates] = added[Len(added)].id]
  /\ pc' = "add_new_pedestrian"
  /\ UNCHANGED << cli_args, obstacle_grid, exits_only_grid, exits_set, initial_fire_grid, fire_floor_field, fire_grid,
                  static_floor_field, heatmap_grid, number_timesteps, timesteps_mod_interval,
                  has_the_fire_spread, simu_index, output, auxiliary_file, simulation_set_index,
                  returned_value, dynamic_floor_field >>

\* deallocate_pedestrians: the list is freed and the count is 0.
deallocate_pedestrians ==
  /\ pc # "end"
  /\ pedestrian_set' = << >>
  /\ pc' = "deallocate_pedestrians"
  /\ UNCHANGED << cli_args, obstacle_grid, exits_only_grid, exits_set, initial_fire_grid, fire_floor_field, fire_grid,
                  static_floor_field, pedestrian_position_grid, heatmap_grid, number_timesteps,
                  timesteps_mod_interval, has_the_fire_spread, simu_index, output, auxiliary_file,
                  simulation_set_index, returned_value, dynamic_floor_field >>

NextPedestrians ==
  \/ random_insertion
  \/ pedestrian_symbol
  \/ deallocate_pedestrians

SpecPedestrians == InitPedestrians /\ [][NextPedestrians]_vars


(* ---------------- the states of a pedestrian ---------------- *)

\* A 4x4 room with one exit and two pedestrians, simulated twice.
StatesRoom ==
  [ environment_filename |-> "states_room", global_line_number |-> 4, global_column_number |-> 4,
    obstacles |-> Boundary(4, 4), exits |-> << <<Loc(1, 0)>> >>, fire |-> {},
    pedestrians |-> << Loc(1, 1), Loc(2, 2) >>, immediate_exit |-> FALSE,
    fire_is_present |-> FALSE, fire_spread_interval |-> 2, ks |-> 1, mu |-> 0,
    environment_origin |-> "STRUCTURE_DOORS_AND_PEDESTRIANS", auxiliary |-> << >>,
    num_simulations |-> 2 ]

\* The first time step of a simulation at the call of apply_pedestrian_movement,
\* every pedestrian with its own cell as target and in one of the states MOVING
\* and DEAD of enum Pedestrian_State.
InitStates ==
  \E a \in {StatesRoom} :
  \E states \in [1 .. Len(a.pedestrians) -> {"MOVING", "DEAD"}] :
    LET cells == Cells(a.global_line_number, a.global_column_number)
        exit_cells == UNION {SeqToSet(a.exits[e]) : e \in 1 .. Len(a.exits)}
    IN
    /\ cli_args = a
    /\ obstacle_grid = [x \in cells |-> IF x \in a.obstacles THEN IMPASSABLE_OBJECT ELSE EMPTY_CELL]
    /\ exits_only_grid = [x \in cells |-> IF x \in exit_cells THEN EXIT_CELL ELSE EMPTY_CELL]
    /\ exits_set = [e \in 1 .. Len(a.exits) |->
                      [coordinates |-> a.exits[e], is_blocked_by_fire |-> FALSE]]
    /\ initial_fire_grid = [x \in cells |-> EMPTY_CELL]
    /\ fire_grid = [x \in cells |-> EMPTY_CELL]
    /\ fire_floor_field = [x \in cells |-> EMPTY_CELL]
    /\ static_floor_field = static_field_calculation(exits_set, exits_only_grid, fire_grid)
    /\ pedestrian_set = [k \in 1 .. Len(a.pedestrians) |->
                           [create_pedestrian(a.pedestrians[k], k) EXCEPT
                              !.state = states[k], !.target = a.pedestrians[k]]]
    /\ pedestrian_position_grid = [x \in cells |-> PedestrianAt(a.pedestrians, x)]
    /\ heatmap_grid = [x \in cells |->
                         Cardinality({k \in 1 .. Len(a.pedestrians) : a.pedestrians[k] = x})]
    /\ number_timesteps = 0
    /\ timesteps_mod_interval = 0
    /\ has_the_fire_spread = FALSE
    /\ simu_index = 0
    /\ output = << >>
    /\ dynamic_floor_field = [x \in cells |-> 0]
    /\ auxiliary_file = << >>
    /\ simulation_set_index = 0
    /\ returned_value = "SUCCESS"
    /\ pc = "apply"

SpecStates == InitStates /\ [][Next]_vars

(* ---------------- the propagation of the fire ---------------- *)

\* A 5x6 room with fire: walls around, the obstacles inner inside, the exits given
\* either as '_' of the environment file (on the walls) or by the auxiliary file,
\* and the fire on the cells seeds.
FireRoom(inner, origin, doors, seeds) ==
  [ environment_filename |-> "fire_room", global_line_number |-> 5, global_column_number |-> 6,
    obstacles |-> Boundary(5, 6) \cup inner, exits |-> doors, fire |-> seeds,
    pedestrians |-> << >>, immediate_exit |-> FALSE, fire_is_present |-> TRUE,
    fire_spread_interval |-> 1, ks |-> 1, mu |-> 0,
    environment_origin |-> origin, auxiliary |-> << >>, num_simulations |-> 1 ]

\* The obstacles inside the room: none, a pillar, a wall with a gap below it.
FireRoomObstacles == { {}, {Loc(2, 2)}, {Loc(1, 3), Loc(2, 3)} }

\* The exits: '_' on the left wall, or a line of the auxiliary file naming a cell
\* of the right wall or an empty cell of the room.
FireRoomExits ==
  { << "STRUCTURE_AND_DOORS", << <<Loc(2, 0)>> >> >>,
    << "ONLY_STRUCTURE", << <<Loc(2, 5)>> >> >>,
    << "ONLY_STRUCTURE", << <<Loc(3, 4)>> >> >> }

\* One or two cells on fire, each an empty cell that is no exit.
FireSeeds(inner, doors) ==
  LET free == {x \in Cells(5, 6) : /\ x \notin Boundary(5, 6) \cup inner
                                   /\ \A e \in 1 .. Len(doors) : x \notin SeqToSet(doors[e])}
  IN  {{x, y} : x \in free, y \in free}

FireRooms ==
  UNION {{FireRoom(inner, d[1], d[2], seeds) : seeds \in FireSeeds(inner, d[2])} :
           inner \in FireRoomObstacles, d \in FireRoomExits}

\* The state at the first call of zheng_fire_propagation.
InitFire ==
  \E a \in FireRooms :
    /\ load_environment(a)
    /\ auxiliary_file = << >>
    /\ simulation_set_index = 0
    /\ returned_value = "SUCCESS"
    /\ pc = "propagation"

\* One call of zheng_fire_propagation.
call_zheng_fire_propagation ==
  /\ pc = "propagation"
  /\ fire_grid' = zheng_fire_propagation(fire_grid)
  /\ UNCHANGED << cli_args, obstacle_grid, exits_only_grid, exits_set, initial_fire_grid,
                  fire_floor_field, static_floor_field, pedestrian_set, pedestrian_position_grid,
                  heatmap_grid, number_timesteps, timesteps_mod_interval, has_the_fire_spread,
                  simu_index, output, pc, auxiliary_file, simulation_set_index, returned_value,
                  dynamic_floor_field >>

NextFire == call_zheng_fire_propagation

SpecFire == InitFire /\ [][NextFire]_vars

(* ---------------- the simulations of a run, with the dynamic field ---------------- *)

\* What run_simulations and the functions it calls leave alone.
driver_vars == << auxiliary_file, simulation_set_index, returned_value >>

\* The dynamic field is kept here as an indicator: 1 for a cell with a positive
\* density, 0 for a cell without particles.
\* increase_particle_at for every pedestrian apply_pedestrian_movement passes over
\* that is not GOT_OUT (velocity_density_field is off): its cell before the move.
increased_particles(field, peds) ==
  [x \in DOMAIN field |->
     IF \E p \in 1 .. Len(peds) : peds[p].state # "GOT_OUT" /\ peds[p].current = x
     THEN 1 ELSE field[x]]

\* apply_decay_and_diffusion, with delta and alpha in halves: a cell that is no
\* wall and not on fire holds (1 - alpha)(1 - delta) of its own particles and
\* alpha (1 - delta) / 4 of those of its orthogonal neighbours, scaled to the
\* total there was before.
apply_decay_and_diffusion(field) ==
  [x \in DOMAIN field |->
     IF /\ obstacle_grid[x] = EMPTY_CELL \/ exits_only_grid[x] # EMPTY_CELL
        /\ fire_grid[x] # FIRE_CELL
        /\ cli_args.delta < 2
        /\ \/ cli_args.alpha < 2 /\ field[x] > 0
           \/ /\ cli_args.alpha > 0
              /\ \E m \in 1 .. 4 :
                   LET n == Loc(x[1] + non_diagonal_modifiers[m][1],
                                x[2] + non_diagonal_modifiers[m][2])
                   IN  /\ n \in DOMAIN field
                       /\ field[n] > 0
                       /\ fire_grid[n] # FIRE_CELL
     THEN 1 ELSE 0]

\* A start of a simulation that leaves the dynamic field as the simulation before
\* has left it.
restarted_dynamic_field_keeping_particles(field) == field

\* fill_double_grid(exits_set.dynamic_floor_field, ..., 0) at the start of a simulation.
restarted_dynamic_field(field) == [x \in DOMAIN field |-> 0]

\* The start of one simulation, up to the head of the time-step loop.
start_simulation_with_particles ==
  /\ pc = "simulation"
  /\ dynamic_floor_field' = restarted_dynamic_field(dynamic_floor_field)
  /\ fire_grid' = initial_fire_grid
  /\ fire_floor_field' = initial_fire_grid
  /\ static_floor_field' = static_field_calculation(exits_set, exits_only_grid, initial_fire_grid)
  /\ number_timesteps' = 0
  /\ timesteps_mod_interval' = 0
  /\ has_the_fire_spread' = FALSE
  /\ pc' = "loop"
  /\ UNCHANGED << driver_vars, cli_args, obstacle_grid, exits_only_grid, exits_set,
                  initial_fire_grid, pedestrian_set, pedestrian_position_grid, heatmap_grid,
                  simu_index, output >>

apply_pedestrian_movement_with_particles ==
  /\ pc = "apply"
  /\ dynamic_floor_field' = increased_particles(dynamic_floor_field, pedestrian_set)
  /\ pedestrian_set' = [p \in Ids |-> moved_pedestrian(pedestrian_set[p])]
  /\ pc' = "update"
  /\ UNCHANGED << driver_vars, cli_args, obstacle_grid, exits_only_grid, exits_set,
                  initial_fire_grid, fire_floor_field, fire_grid, static_floor_field,
                  pedestrian_position_grid, heatmap_grid, number_timesteps,
                  timesteps_mod_interval, has_the_fire_spread, simu_index, output >>

\* The end of a time step: apply_decay_and_diffusion, then the spread of the fire
\* every fire_spread_interval steps.
fire_spread_with_particles ==
  /\ pc = "spread"
  /\ dynamic_floor_field' = apply_decay_and_diffusion(dynamic_floor_field)
  /\ LET spreads == is_spread_due(timesteps_mod_interval)
     IN  /\ fire_grid' = IF spreads THEN zheng_fire_propagation(fire_grid) ELSE fire_grid
         /\ fire_floor_field' = IF spreads THEN zheng_fire_propagation(fire_grid)
                                ELSE fire_floor_field
         /\ has_the_fire_spread' = IF spreads THEN TRUE ELSE has_the_fire_spread
  /\ pc' = "loop"
  /\ UNCHANGED << driver_vars, cli_args, obstacle_grid, exits_only_grid, exits_set,
                  initial_fire_grid, static_floor_field, pedestrian_set,
                  pedestrian_position_grid, heatmap_grid, number_timesteps,
                  timesteps_mod_interval, simu_index, output >>

\* The room of FireSpread with the parameters of the dynamic field, delta and
\* alpha in halves.
RunsRoom(delta, alpha) ==
  [ environment_filename |-> "runs_room", global_line_number |-> 4, global_column_number |-> 5,
    obstacles |-> Boundary(4, 5), exits |-> << <<Loc(1, 0)>>, <<Loc(2, 4)>> >>,
    fire |-> {Loc(1, 3)}, pedestrians |-> <<Loc(2, 1)>>, immediate_exit |-> FALSE,
    fire_is_present |-> TRUE, fire_spread_interval |-> 2, ks |-> 1, mu |-> 0,
    environment_origin |-> "STRUCTURE_DOORS_AND_PEDESTRIANS", auxiliary |-> << >>,
    delta |-> delta, alpha |-> alpha, num_simulations |-> 2 ]

RunsRooms == {RunsRoom(delta, alpha) : delta \in 0 .. 2, alpha \in 0 .. 2}

\* The state at the call of run_simulations.
InitRuns == \E a \in RunsRooms : InitWith(a)

NextRuns ==
  \/ start_simulation_with_particles
  \/ begin_timestep
  \/ evaluate_pedestrians_movements
  \/ conflict_solving
  \/ apply_pedestrian_movement_with_particles
  \/ update_pedestrian_position_grid
  \/ reset_pedestrian_state
  \/ fire_spread_with_particles
  \/ end_simulation

SpecRuns == InitRuns /\ [][NextRuns]_vars

(* ---------------- the static weights of an exit ---------------- *)

\* A 5x5 room with an exit on (2, 0) and obstacles on some of its inner cells;
\* diagonal is cli_args.diagonal in halves.
WeightRoom(inner_obstacles, flag, diagonal) ==
  [ environment_filename |-> "weight_room", global_line_number |-> 5,
    global_column_number |-> 5, obstacles |-> Boundary(5, 5) \cup inner_obstacles,
    exits |-> << << Loc(2, 0) >> >>, fire |-> {}, pedestrians |-> << >>,
    immediate_exit |-> TRUE, fire_is_present |-> FALSE, fire_spread_interval |-> 2,
    ks |-> 1, mu |-> 0, environment_origin |-> "STRUCTURE_AND_DOORS", auxiliary |-> << >>,
    prevent_corner_crossing |-> flag, diagonal |-> diagonal, num_simulations |-> 1 ]

\* The diagonal costs 1.0 and 1.5.
WeightRooms ==
  {WeightRoom(o, flag, diagonal) : o \in SUBSET {Loc(1, 1), Loc(1, 2), Loc(2, 2), Loc(3, 1)},
                                   flag \in BOOLEAN, diagonal \in {2, 3}}

LeastOf(values) == CHOOSE m \in values : \A v \in values : m <= v

\* The weights are kept in halves: a grid of doubles g is the grid of 2 * g.
InHalves(grid) == [x \in DOMAIN grid |-> 2 * grid[x]]

\* The grid of halves as is_diagonal_valid sees it: a cell is IMPASSABLE_OBJECT
\* when its value equals the sentinel.
SeenForDiagonals(weights) ==
  [x \in DOMAIN weights |-> IF weights[x] = 2 * IMPASSABLE_OBJECT THEN IMPASSABLE_OBJECT ELSE 0]

\* floor_field_rule[1 + j][1 + k], in halves.
floor_field_rule(j, k) ==
  IF j # 0 /\ k # 0 THEN cli_args.diagonal ELSE IF j = 0 /\ k = 0 THEN 0 ELSE 2

\* The values one sweep of calculate_static_weight offers to cell n: for every
\* cell of its 3x3 block whose value is neither IMPASSABLE_OBJECT nor 0.0, that
\* value plus the cost of the step, unless n holds IMPASSABLE_OBJECT or EXIT_CELL
\* or the step is a diagonal that is not valid.
adjacent_cell_values(weights, n) ==
  {weights[Loc(n[1] - j, n[2] - k)] + floor_field_rule(j, k) :
     <<j, k>> \in {m \in (-1 .. 1) \X (-1 .. 1) :
        LET origin == Loc(n[1] - m[1], n[2] - m[2]) IN
        /\ origin \in DOMAIN weights
        /\ weights[origin] # 2 * IMPASSABLE_OBJECT
        /\ weights[origin] # 0
        /\ weights[n] # 2 * IMPASSABLE_OBJECT
        /\ weights[n] # 2 * EXIT_CELL
        /\ (m[1] # 0 /\ m[2] # 0) => is_diagonal_valid(origin, m, SeenForDiagonals(weights))}}

\* One pass of the do-while loop of calculate_static_weight: the auxiliary grid
\* copied back.  A cell holding 0.0 takes the least value offered, any other cell
\* the least of its own and the offered ones.
static_weight_sweep(weights) ==
  [n \in DOMAIN weights |->
     IF adjacent_cell_values(weights, n) = {} THEN weights[n]
     ELSE IF weights[n] = 0 THEN LeastOf(adjacent_cell_values(weights, n))
     ELSE LeastOf(adjacent_cell_values(weights, n) \cup {weights[n]})]

\* The state of calculate_static_weight at its do-while loop, for the first exit.
InitWeights ==
  \E a \in WeightRooms :
    /\ load_environment(a)
    /\ auxiliary_file = << >>
    /\ simulation_set_index = 0
    /\ returned_value =
         [ varas_static_weight |->
             InHalves([x \in Cells(a.global_line_number, a.global_column_number) |->
                         IF x \in SeqToSet(a.exits[1]) THEN EXIT_CELL
                         ELSE IF x \in a.obstacles THEN IMPASSABLE_OBJECT ELSE 0]),
           has_changed |-> TRUE ]
    /\ pc = "do_while"

\* One iteration of the do-while loop.
calculate_static_weight_sweep ==
  /\ pc = "do_while"
  /\ returned_value.has_changed
  /\ returned_value' =
       [ varas_static_weight |-> static_weight_sweep(returned_value.varas_static_weight),
         has_changed |-> static_weight_sweep(returned_value.varas_static_weight)
                           # returned_value.varas_static_weight ]
  /\ UNCHANGED << cli_args, obstacle_grid, exits_only_grid, exits_set, initial_fire_grid,
                  fire_floor_field, fire_grid, static_floor_field, pedestrian_set,
                  pedestrian_position_grid, heatmap_grid, number_timesteps,
                  timesteps_mod_interval, has_the_fire_spread, simu_index, output, pc,
                  auxiliary_file, simulation_set_index, dynamic_floor_field >>

NextWeights == calculate_static_weight_sweep

SpecWeights == InitWeights /\ [][NextWeights]_vars

(* ---------------- the fire closing the only exit ---------------- *)

\* The room of FireBlock with the pedestrian two cells from the exit and a fire
\* that spreads every second time step: after the first spread the only exit is
\* blocked and cells without fire are left.
FireClosing(k) ==
  [ environment_filename |-> "fire_closing", global_line_number |-> 5, global_column_number |-> 5,
    obstacles |-> Boundary(5, 5), exits |-> << <<Loc(2, 0)>> >>, fire |-> {Loc(2, 1)},
    pedestrians |-> <<Loc(2, 2)>>, immediate_exit |-> TRUE, fire_is_present |-> TRUE,
    fire_spread_interval |-> 2, ks |-> k, mu |-> 0,
    environment_origin |-> "STRUCTURE_DOORS_AND_PEDESTRIANS", auxiliary |-> << >>, num_simulations |-> 1 ]

InitClosing == \E k \in {0, 1} : InitWith(FireClosing(k))

SpecClosing == InitClosing /\ [][Next]_vars

(* ---------------- the distance of the cells to the fire ---------------- *)

\* A room with fire seeds on its inner cells.
DistanceRoom(lines, cols, seeds) ==
  [ environment_filename |-> "distance_room", global_line_number |-> lines,
    global_column_number |-> cols, obstacles |-> Boundary(lines, cols),
    exits |-> << << Loc(1, 0) >> >>, fire |-> seeds, pedestrians |-> << >>,
    immediate_exit |-> TRUE, fire_is_present |-> TRUE, fire_spread_interval |-> 2,
    ks |-> 1, mu |-> 0, environment_origin |-> "STRUCTURE_AND_DOORS", auxiliary |-> << >>,
    prevent_corner_crossing |-> FALSE, diagonal |-> 3, num_simulations |-> 1 ]

MaxSeeds == 3

SeedsOf(lines, cols, most) ==
  {f \in SUBSET (Cells(lines, cols) \ Boundary(lines, cols)) :
     Cardinality(f) >= 1 /\ Cardinality(f) <= most}

\* Square rooms with up to MaxSeeds seeds and the two oblong rooms with up to two.
DistanceRooms ==
  {DistanceRoom(5, 5, f) : f \in SeedsOf(5, 5, MaxSeeds)}
    \cup {DistanceRoom(4, 5, f) : f \in SeedsOf(4, 5, 2)}
    \cup {DistanceRoom(5, 4, f) : f \in SeedsOf(5, 4, 2)}

\* coordinates.lin is the main coordinate whatever the direction of the scan, and a
\* main coordinate below the one of the last set is appended to the last set.
add_to_coordinates_collection(collection, coordinates) ==
  IF Len(collection) = 0 \/ collection[Len(collection)].main_coordinate < coordinates[1]
  THEN Append(collection, [main_coordinate |-> coordinates[1],
                           secondary_coordinates |-> << coordinates[2] >>])
  ELSE SubSeq(collection, 1, Len(collection) - 1)
         \o << [main_coordinate |-> collection[Len(collection)].main_coordinate,
                secondary_coordinates |->
                  Append(collection[Len(collection)].secondary_coordinates, coordinates[2])] >>

\* The first scanned indexes of the double loop; lit holds the index pairs <<i, j>> for which
\* fire_grid[i][j] was read as not EMPTY_CELL.
RECURSIVE extract_fire_coordinate_sets(_, _, _, _)
extract_fire_coordinate_sets(lit, line_direction, second_dimension_limit, scanned) ==
  IF scanned = 0 THEN << >>
  ELSE LET i == (scanned - 1) \div second_dimension_limit
           j == (scanned - 1) % second_dimension_limit
           collection == extract_fire_coordinate_sets(lit, line_direction,
                                                      second_dimension_limit, scanned - 1)
       IN IF << i, j >> \in lit
          THEN add_to_coordinates_collection(collection,
                                             IF line_direction THEN Loc(i, j) ELSE Loc(j, i))
          ELSE collection

\* The index pairs of the column scan: i below the number of columns, j below the number of lines.
ColumnScan == (0 .. cli_args.global_column_number - 1) \X (0 .. cli_args.global_line_number - 1)

\* The index pairs of the column scan that are outside the fire grid.
ReadOutsideTheGrid == ColumnScan \ AllCells

LitCells(scan) == {x \in scan \cap AllCells : fire_grid[x] # EMPTY_CELL}

\* The binary search of determine_adjacent_coordinate_sets and of
\* determine_adjacent_secondary_coordinates: the positions (from 0) of the neighbours.
RECURSIVE adjacent_positions(_, _, _, _)
adjacent_positions(keys, coordinate, left, right) ==
  IF left <= right
  THEN LET middle == (left + right) \div 2
       IN IF keys[middle + 1] = coordinate
          THEN (IF middle - 1 >= 0 THEN << middle - 1 >> ELSE << >>)
                 \o << middle >>
                 \o (IF middle + 1 <= Len(keys) - 1 THEN << middle + 1 >> ELSE << >>)
          ELSE IF keys[middle + 1] < coordinate
               THEN adjacent_positions(keys, coordinate, middle + 1, right)
               ELSE adjacent_positions(keys, coordinate, left, middle - 1)
  ELSE IF left = 0 THEN << 0 >>
       ELSE IF left = Len(keys) THEN << Len(keys) - 1 >>
       ELSE << right, left >>

MainCoordinates(collection) == [s \in 1 .. Len(collection) |-> collection[s].main_coordinate]

determine_adjacent_coordinate_sets(collection, coordinate) ==
  LET found == adjacent_positions(MainCoordinates(collection), coordinate, 0, Len(collection) - 1)
  IN {collection[found[n] + 1] : n \in 1 .. Len(found)}

determine_adjacent_secondary_coordinates(set, coordinate) ==
  LET found == adjacent_positions(set.secondary_coordinates, coordinate, 0,
                                  Len(set.secondary_coordinates) - 1)
  IN {set.secondary_coordinates[found[n] + 1] : n \in 1 .. Len(found)}

\* The cells the two searches compare the cell x with.
ComparedFireCells(line_set, column_set, x) ==
  UNION {{Loc(set.main_coordinate, j_fire) :
            j_fire \in determine_adjacent_secondary_coordinates(set, x[2])} :
           set \in determine_adjacent_coordinate_sets(line_set, x[1])}
    \cup
  UNION {{Loc(i_fire, set.main_coordinate) :
            i_fire \in determine_adjacent_secondary_coordinates(set, x[1])} :
           set \in determine_adjacent_coordinate_sets(column_set, x[2])}

\* The grid of the squares of the distances.
distance_from_cells_to_fire(line_set, column_set) ==
  [x \in AllCells |->
     IF fire_grid[x] = FIRE_CELL THEN 0
     ELSE ClosestSquaredDistance(x, ComparedFireCells(line_set, column_set, x))]

InitDistance ==
  \E a \in DistanceRooms :
    /\ load_environment(a)
    /\ auxiliary_file = << >>
    /\ simulation_set_index = 0
    /\ returned_value = "SUCCESS"
    /\ pc = "fire_distance"

\* A read outside the grid is undefined: it may or may not compare equal to EMPTY_CELL.
calculate_distance_from_cells_to_fire ==
  /\ pc = "fire_distance"
  /\ cli_args.fire_is_present
  /\ \E outside \in SUBSET ReadOutsideTheGrid :
       LET line_set == extract_fire_coordinate_sets(LitCells(AllCells), TRUE,
                         cli_args.global_column_number,
                         cli_args.global_line_number * cli_args.global_column_number)
           column_set == extract_fire_coordinate_sets(LitCells(ColumnScan) \cup outside, FALSE,
                           cli_args.global_line_number,
                           cli_args.global_line_number * cli_args.global_column_number)
       IN returned_value' =
            [ line_set |-> line_set, column_set |-> column_set,
              fire_distance_grid |-> distance_from_cells_to_fire(line_set, column_set) ]
  /\ pc' = "fire_distance_done"
  /\ UNCHANGED << cli_args, obstacle_grid, exits_only_grid, exits_set, initial_fire_grid,
                  fire_floor_field, fire_grid, static_floor_field, pedestrian_set,
                  pedestrian_position_grid, heatmap_grid, number_timesteps,
                  timesteps_mod_interval, has_the_fire_spread, simu_index, output,
                  auxiliary_file, simulation_set_index, dynamic_floor_field >>

NextDistance == calculate_distance_from_cells_to_fire

SpecDistance == InitDistance /\ [][NextDistance]_vars

(* ---------------- the roulette wheel ---------------- *)

MaxWeights == 3

MaxWeight == 2

\* The lists of up to MaxWeights weights.
WeightLists == UNION {[1 .. n -> 0 .. MaxWeight] : n \in 0 .. MaxWeights}

\* The float rand_within_limits(0, total_probability) in halves. The float conversion of a
\* total that is not a float can end above the double sum: the value past the total.
RouletteDraws(total_probability) ==
  IF total_probability = 0 THEN {0} ELSE 0 .. 2 * total_probability + 1

\* A loop that takes the weights of 0 as the others.
RECURSIVE roulette_wheel_loop_counting_zeros(_, _, _, _, _, _)
roulette_wheel_loop_counting_zeros(probability_list, length, draw_value, i, index, sum) ==
  IF i >= length THEN index
  ELSE IF draw_value <= 2 * (sum + probability_list[i + 1]) THEN i
  ELSE roulette_wheel_loop_counting_zeros(probability_list, length, draw_value, i + 1, i,
                                          sum + probability_list[i + 1])

\* The loop of roulette_wheel_selection from its iteration i on, index and sum being the
\* values of index and current_sum; draw_value in halves.
RECURSIVE roulette_wheel_loop(_, _, _, _, _, _)
roulette_wheel_loop(probability_list, length, draw_value, i, index, sum) ==
  IF i >= length THEN index
  ELSE IF probability_list[i + 1] = 0
       THEN roulette_wheel_loop(probability_list, length, draw_value, i + 1, index, sum)
       ELSE IF draw_value <= 2 * (sum + probability_list[i + 1]) THEN i
       ELSE roulette_wheel_loop(probability_list, length, draw_value, i + 1, i,
                                sum + probability_list[i + 1])

InitRoulette ==
  \E probability_list \in WeightLists :
    /\ load_environment(WeightRoom({}, FALSE, 3))
    /\ auxiliary_file = << >>
    /\ simulation_set_index = 0
    /\ returned_value = [ probability_list |-> probability_list,
                          length |-> Len(probability_list),
                          total_probability |-> current_sum(probability_list, Len(probability_list)) ]
    /\ pc = "roulette"

call_roulette_wheel_selection ==
  /\ pc = "roulette"
  /\ \E draw_value \in RouletteDraws(returned_value.total_probability) :
       returned_value' =
         [ probability_list |-> returned_value.probability_list,
           length |-> returned_value.length,
           total_probability |-> returned_value.total_probability,
           draw_value |-> draw_value,
           index |-> roulette_wheel_loop(returned_value.probability_list, returned_value.length,
                                         draw_value, 0, -1, 0) ]
  /\ pc' = "roulette_done"
  /\ UNCHANGED << cli_args, obstacle_grid, exits_only_grid, exits_set, initial_fire_grid,
                  fire_floor_field, fire_grid, static_floor_field, pedestrian_set,
                  pedestrian_position_grid, heatmap_grid, number_timesteps,
                  timesteps_mod_interval, has_the_fire_spread, simu_index, output,
                  auxiliary_file, simulation_set_index, dynamic_floor_field >>

NextRoulette == call_roulette_wheel_selection

SpecRoulette == InitRoulette /\ [][NextRoulette]_vars

(* ---------------- the interval of the fire spread ---------------- *)

\* The length of a cell and the duration of a time step, in units in which the spread
\* rates below are whole numbers.
CELL_LENGTH == 4

TIMESTEP_TIME == 1

\* The spread rates of the command line, cell lengths per 4 time steps.
SpreadRates == {1, 2, 4, 5}

\* (int) ((CELL_LENGTH / cli_args.spread_rate) / TIMESTEP_TIME), for a positive rate.
fire_spread_interval_of(spread_rate) == CELL_LENGTH \div (spread_rate * TIMESTEP_TIME)

\* A room started with a spread rate.
WithSpreadRate(a, spread_rate) ==
  [f \in DOMAIN a \cup {"spread_rate"} |->
     IF f = "spread_rate" THEN spread_rate
     ELSE IF f = "fire_spread_interval" THEN fire_spread_interval_of(spread_rate)
     ELSE a[f]]

IntervalRooms ==
  {WithSpreadRate(a, spread_rate) : a \in {EmptyRoom, Room3(TRUE), FireSpread(0)},
                                    spread_rate \in SpreadRates}

InitInterval == \E a \in IntervalRooms : InitWith(a)

\* number_timesteps % fire_spread_interval with an interval of 0, where the division traps.
remainder_modulo_zero ==
  /\ pc = "spread"
  /\ cli_args.fire_spread_interval = 0
  /\ pc' = "SIGFPE"
  /\ UNCHANGED << main_vars, cli_args, obstacle_grid, exits_only_grid, exits_set,
                  initial_fire_grid, fire_floor_field, fire_grid, static_floor_field,
                  pedestrian_set, pedestrian_position_grid, heatmap_grid, number_timesteps,
                  timesteps_mod_interval, has_the_fire_spread, simu_index, output >>

NextInterval ==
  \/ start_simulation
  \/ begin_timestep
  \/ evaluate_pedestrians_movements
  \/ conflict_solving
  \/ apply_pedestrian_movement
  \/ update_pedestrian_position_grid
  \/ reset_pedestrian_state
  \/ remainder_modulo_zero
  \/ fire_spread
  \/ end_simulation

SpecInterval == InitInterval /\ [][NextInterval]_vars

(* ---------------- the evacuation without fire ---------------- *)

\* An obstacle on the straight line from the pedestrian to the exit.
DetourRoom ==
  [ environment_filename |-> "detour_room", global_line_number |-> 5, global_column_number |-> 5,
    obstacles |-> Boundary(5, 5) \cup {Loc(2, 2)}, exits |-> << <<Loc(2, 0)>> >>, fire |-> {},
    pedestrians |-> <<Loc(2, 3)>>, immediate_exit |-> TRUE, fire_is_present |-> FALSE,
    fire_spread_interval |-> 2, ks |-> 1, mu |-> 0,
    environment_origin |-> "STRUCTURE_DOORS_AND_PEDESTRIANS", auxiliary |-> << >>, num_simulations |-> 1 ]

\* A corridor with the exit opposite its middle cell and a pedestrian at each end.
MeetingRoom(imm) ==
  [ environment_filename |-> "meeting_room", global_line_number |-> 3, global_column_number |-> 5,
    obstacles |-> Boundary(3, 5), exits |-> << <<Loc(0, 2)>> >>, fire |-> {},
    pedestrians |-> <<Loc(1, 1), Loc(1, 3)>>, immediate_exit |-> imm, fire_is_present |-> FALSE,
    fire_spread_interval |-> 2, ks |-> 1, mu |-> 0,
    environment_origin |-> "STRUCTURE_DOORS_AND_PEDESTRIANS", auxiliary |-> << >>, num_simulations |-> 1 ]

EvacuationRooms == {Room3(TRUE), Room3(FALSE), DetourRoom, MeetingRoom(TRUE), MeetingRoom(FALSE)}

InitEvacuation == \E a \in EvacuationRooms : InitWith(a)

\* The cells from which an exit cell is reached in at most n orthogonal steps over cells
\* that are not obstacles.
RECURSIVE CellsWithin(_)
CellsWithin(n) ==
  IF n = 0 THEN {x \in AllCells : exits_only_grid[x] = EXIT_CELL}
  ELSE LET nearer == CellsWithin(n - 1)
       IN nearer \cup {x \in AllCells :
                         /\ obstacle_grid[x] = EMPTY_CELL
                         /\ \E m \in 1 .. 4 :
                              Loc(x[1] + non_diagonal_modifiers[m][1],
                                  x[2] + non_diagonal_modifiers[m][2]) \in nearer}

\* The longest of the shortest ways to an exit in the rooms above.
MaxPath == 5

\* The number of orthogonal steps from x to the closest exit cell.
PathDistance(x) ==
  IF x \in CellsWithin(MaxPath)
  THEN CHOOSE n \in 0 .. MaxPath : x \in CellsWithin(n) /\ (n = 0 \/ x \notin CellsWithin(n - 1))
  ELSE MaxPath + 1

\* The scoring pass in which a pedestrian d steps from the exits draws a target that is
\* fewer steps from them.
NearerByPath(d) ==
  /\ evaluate_pedestrians_movements
  /\ \E p \in Ids :
       /\ pedestrian_set[p].state = "MOVING"
       /\ PathDistance(pedestrian_set[p].current) = d
       /\ PathDistance(pedestrian_set'[p].target) < d

\* The evacuation under the scheduling of the program: the loop keeps running while it can,
\* and a target that can be drawn again and again is drawn again and again.  The winner of a
\* conflict is drawn by conflict_solving, a step of the loop.
FairEvacuation ==
  /\ InitEvacuation
  /\ [][Next]_vars
  /\ WF_vars(Next)
  /\ \A d \in 1 .. MaxPath : SF_vars(NearerByPath(d))

(* ---------------- properties ---------------- *)

LiveStates == {"MOVING", "STOPPED", "LEAVING"}

LivePedestrians == {p \in Ids : pedestrian_set[p].state \in LiveStates}

\* The program is between reset_pedestrian_state and the next scoring pass.
AtTimestepBoundary == pc \in {"spread", "loop"}

\* C1: at every time-step boundary the position grid holds a pedestrian's id at its
\* current cell exactly when the pedestrian is MOVING, STOPPED or LEAVING; no two
\* such pedestrians share a cell, and the nonzero cells are as many as they are.
C1_GridMatchesLivePedestrians ==
  AtTimestepBoundary =>
    /\ \A p \in Ids :
         (pedestrian_position_grid[pedestrian_set[p].current] = pedestrian_set[p].id)
           <=> (pedestrian_set[p].state \in LiveStates)
    /\ \A p, q \in LivePedestrians :
         p # q => pedestrian_set[p].current # pedestrian_set[q].current
    /\ Cardinality({x \in AllCells : pedestrian_position_grid[x] # 0}) = Cardinality(LivePedestrians)

\* A boundary after a step in which one pedestrian has got out, a second one stands
\* on the exit and a third one has left its origin.
C1_Witness ==
  /\ pc = "spread"
  /\ \E p, q, r \in Ids :
       /\ pedestrian_set[p].state = "GOT_OUT"
       /\ pedestrian_set[q].state = "LEAVING"
       /\ pedestrian_set[r].state = "MOVING"
       /\ pedestrian_set[r].current # pedestrian_set[r].origin

\* The MOVING pedestrians whose target is x.
MovingTo(x) == {p \in Ids : pedestrian_set[p].state = "MOVING" /\ pedestrian_set[p].target = x}

\* C2: after identify_pedestrian_conflicts and solve_pedestrian_conflicts at most
\* one MOVING pedestrian has a given cell as target.
C2_OneMoverPerTarget ==
  pc = "apply" => \A x \in AllCells : Cardinality(MovingTo(x)) <= 1

\* Three pedestrians chose the same target and two of them were stopped.
C2_Witness ==
  /\ pc = "apply"
  /\ \E x \in AllCells :
       /\ Cardinality(MovingTo(x)) = 1
       /\ Cardinality({p \in Ids : pedestrian_set[p].state = "STOPPED"
                                     /\ pedestrian_set[p].target = x}) = 2


FireCells(fire) == {x \in DOMAIN fire : fire[x] = FIRE_CELL}

\* C4: within one simulation a FIRE cell of the fire grid stays FIRE; the fire grid
\* is taken back to the initial snapshot only by the start of a simulation.
C4_FireNeverShrinks ==
  [][pc # "simulation" => FireCells(fire_grid) \subseteq FireCells(fire_grid')]_vars

\* The second simulation, after the reset, with the fire spread twice over the room.
C4_Witness ==
  /\ simu_index = 1
  /\ pc = "loop"
  /\ FireCells(initial_fire_grid) # FireCells(fire_grid)
  /\ FireCells(fire_grid) = {x \in AllCells : obstacle_grid[x] = EMPTY_CELL}

FlaggedExits == {e \in 1 .. Len(exits_set) : exits_set[e].is_blocked_by_fire}

\* C5: an exit flagged blocked by fire stays flagged at every later step of the
\* simulation; the flag is cleared only by reset_exits, when the simulation is over.
C5_BlockedStaysBlocked ==
  [][pc # "loop" \/ ~is_environment_empty => FlaggedExits \subseteq FlaggedExits']_vars

\* A flagged exit has been looked at again after a later spread of the fire, in
\* the second simulation.
C5_Witness ==
  /\ simu_index = 1
  /\ pc = "evaluate"
  /\ FlaggedExits = 1 .. Len(exits_set)
  /\ number_timesteps >= 2 * cli_args.fire_spread_interval

\* C6: an exit the initial fire blocks is flagged by the check made before the
\* scoring of the first time step, and the static field of that step holds the
\* blocked-exit sentinel on its cells.
C6_InitialBlockFlagged ==
  (pc = "evaluate" /\ number_timesteps = 0) =>
    \A e \in 1 .. Len(exits_set) :
      is_exit_blocked(exits_set[e], exits_only_grid, fire_grid) =>
        /\ exits_set[e].is_blocked_by_fire
        /\ \A x \in SeqToSet(exits_set[e].coordinates) : static_floor_field[x] = BLOCKED_EXIT_CELL

\* The time steps between reaching the exit cell and the end of the loop included:
\* one with immediate_exit, two without.
StepsToLeave == IF cli_args.immediate_exit THEN 1 ELSE 2

Room3Done == cli_args.environment_filename = "room3" /\ pc = "done"

\* C8 as stated: in the 3x3 room the reported evacuation time is exactly 1 with
\* immediate_exit and exactly 2 without, whatever the pedestrian draws.
C8_ExactEvacuationTime == Room3Done => output = << StepsToLeave >>

\* C8 as amended: the reported evacuation time is 1 (immediate_exit) or 2 (otherwise)
\* plus the number of time steps in which the pedestrian drew its own cell, which
\* the heatmap counts on the interior cell; it is never below 1 or 2.
C8_EvacuationTimeCountsStays ==
  Room3Done =>
    /\ Len(output) = 1
    /\ output[1] >= StepsToLeave
    /\ heatmap_grid # << >> =>
         output[1] = StepsToLeave + (heatmap_grid[pedestrian_set[1].origin] - 1)

\* The pedestrian drew its own cell twice before it drew the exit cell.
C8_Witness ==
  /\ Room3Done
  /\ heatmap_grid # << >>
  /\ output[1] = StepsToLeave + 2

\* The cells around x are all obstacles or occupied.
Surrounded(x) ==
  \A mm \in 1 .. 8 :
    LET y == Loc(x[1] + moore_modifiers[mm][1], x[2] + moore_modifiers[mm][2])
    IN  (is_within_grid_lines(y[1]) /\ is_within_grid_columns(y[2]))
          => \/ obstacle_grid[y] = IMPASSABLE_OBJECT /\ exits_only_grid[y] = EMPTY_CELL
             \/ pedestrian_position_grid[y] > 0

\* The pedestrians the scoring pass of this time step found MOVING and surrounded.
SurroundedPedestrians ==
  {p \in Ids : pedestrian_set[p].state \in {"MOVING", "STOPPED"}
                 /\ Surrounded(pedestrian_set[p].current)}

\* C9 as stated: a MOVING pedestrian whose eight neighbours are walls or pedestrians
\* has its own cell as target and is STOPPED in that time step.
C9_SurroundedIsStopped ==
  pc = "apply" =>
    \A p \in SurroundedPedestrians :
      pedestrian_set[p].target = pedestrian_set[p].current /\ pedestrian_set[p].state = "STOPPED"

\* C9 as amended: such a pedestrian has its own cell as target and stays MOVING
\* through the time step (STOPPED is given only to the losers of a conflict).
C9_SurroundedKeepsItsCell ==
  pc \in {"conflict", "apply"} =>
    \A p \in SurroundedPedestrians :
      pedestrian_set[p].target = pedestrian_set[p].current /\ pedestrian_set[p].state = "MOVING"

\* A pedestrian between obstacles and three other pedestrians, after the conflicts
\* of a step in which one of these moves away.
C9_Witness ==
  /\ pc = "apply"
  /\ \E p \in SurroundedPedestrians, q \in Ids :
       /\ p # q
       /\ pedestrian_set[q].state = "MOVING"
       /\ pedestrian_set[q].target # pedestrian_set[q].current

EmptyRoomDone == cli_args.environment_filename = "empty_room" /\ pc = "done"

\* C10 as stated: the empty-room simulation ends with evacuation time 3 and a heatmap
\* of 1 on (2,3), (2,2), (2,1) and the exit cell (2,0), 0 on every other cell.
C10_EmptyRoomAsStated ==
  EmptyRoomDone =>
    /\ output = << 3 >>
    /\ heatmap_grid = [x \in AllCells |->
                         IF x \in {Loc(2, 3), Loc(2, 2), Loc(2, 1), Loc(2, 0)} THEN 1 ELSE 0]

\* C10 as amended: the evacuation time is at least 3; when it is 3 the heatmap is 1 on
\* (2,3), (2,2) and (2,1) and 0 on every other cell, the exit cell (2,0) included:
\* with immediate_exit the pedestrian has got out before the heatmap is updated.
C10_EmptyRoomStraightPath ==
  EmptyRoomDone =>
    /\ Len(output) = 1
    /\ output[1] >= 3
    /\ heatmap_grid # << >> => heatmap_grid[Loc(2, 0)] = 0
    /\ output[1] = 3 =>
         heatmap_grid = [x \in AllCells |->
                           IF x \in {Loc(2, 3), Loc(2, 2), Loc(2, 1)} THEN 1 ELSE 0]

\* The pedestrian walked straight to the exit.
C10_Witness == EmptyRoomDone /\ output = << 3 >>

\* The conflicts identify_pedestrian_conflicts finds in the targets chosen.
ConflictsFound == identify_pedestrian_conflicts(1, [x \in AllCells |-> 0], << >>)

\* The pedestrians of the k-th conflict found.
Participants(k) ==
  {ConflictsFound[k].pedestrian_ids[i] : i \in 1 .. ConflictsFound[k].num_pedestrians}

\* C11: with mu = 1 the solving of the conflicts leaves every pedestrian of every
\* conflict STOPPED (friction denies them all), and with mu = 0 it leaves exactly
\* one pedestrian of each conflict MOVING and the others STOPPED.
C11_FrictionDeniesAll ==
  [][pc = "conflict" =>
       \A k \in 1 .. Len(ConflictsFound) :
         LET moving == {p \in Participants(k) : pedestrian_set'[p].state = "MOVING"}
             stopped == {p \in Participants(k) : pedestrian_set'[p].state = "STOPPED"}
         IN  /\ moving \cup stopped = Participants(k)
             /\ cli_args.mu = 1 => moving = {}
             /\ cli_args.mu = 0 => Cardinality(moving) = 1]_vars

\* The pedestrian lists the solving of the conflicts found can leave.
SolvedLists ==
  {solve_pedestrian_conflicts(ConflictsFound, random_result) :
     random_result \in RandomResults(ConflictsFound, Len(ConflictsFound))}

\* C12: when the conflicts are about to be solved, every pedestrian of every
\* conflict has a result of the roulette after which it is the one of its conflict
\* left MOVING, whatever its id and its place in the conflict; a MOVING pedestrian
\* in no conflict is left MOVING by every result.
C12_EveryParticipantCanWin ==
  pc = "conflict" =>
    /\ \A k \in 1 .. Len(ConflictsFound) : \A p \in Participants(k) :
         \E solved \in SolvedLists :
           \A q \in Participants(k) : (solved[q].state = "MOVING") <=> (q = p)
    /\ \A p \in Ids :
         (pedestrian_set[p].state = "MOVING"
            /\ \A k \in 1 .. Len(ConflictsFound) : p \notin Participants(k))
         => \A solved \in SolvedLists : solved[p].state = "MOVING"

\* A conflict of three pedestrians with the lowest id recorded first, and a
\* MOVING pedestrian outside it.
C12_Witness ==
  /\ pc = "conflict"
  /\ \E k \in 1 .. Len(ConflictsFound) :
       /\ ConflictsFound[k].num_pedestrians = 3
       /\ \E p \in Ids : pedestrian_set[p].state = "MOVING" /\ p \notin Participants(k)

\* The simulation sets of the run: the lines of the auxiliary file, or the one
\* set of the exits of the environment file.
SimulationSets ==
  IF origin_uses_auxiliary_data THEN [k \in 1 .. Len(cli_args.auxiliary) |-> new_exits(cli_args.auxiliary[k])]
  ELSE << new_exits(cli_args.exits) >>

\* What is printed for the k-th simulation set.
OutputOfSet(k) ==
  SubSeq(output, (k - 1) * cli_args.num_simulations + 1, k * cli_args.num_simulations)

\* C13: main goes through each simulation set once and no further: the sets
\* done are never more than the sets there are, and for each set done the output
\* holds num_simulations values, all of them the placeholder -1 when
\* calculate_all_static_weights reports INACCESSIBLE_EXIT for the set (no
\* simulation is run) and none of them otherwise, with the exits of the auxiliary
\* file and with the exits of the environment file.
C13_InaccessibleSetSkippedOnce ==
  /\ simulation_set_index <= Len(SimulationSets)
  /\ Len(output) = simulation_set_index * cli_args.num_simulations
  /\ \A k \in 1 .. Min(simulation_set_index, Len(SimulationSets)) :
       IF calculate_all_static_weights(SimulationSets[k]) = "INACCESSIBLE_EXIT"
       THEN OutputOfSet(k) = print_placeholder(-1)
       ELSE \A i \in 1 .. cli_args.num_simulations : OutputOfSet(k)[i] >= 1

C18_ExitsCarvedInWalls ==
  \A x \in AllCells : exits_only_grid[x] = EXIT_CELL => obstacle_grid[x] = IMPASSABLE_OBJECT

\* The orthogonal neighbours of the diagonal step asked about that are IMPASSABLE
\* in the field handed over, where an exit cell holds EXIT_CELL and not its wall.
BlockedSides ==
  {x \in {Loc(returned_value.origin_cell[1] + returned_value.coordinate_modifier[1],
              returned_value.origin_cell[2]),
          Loc(returned_value.origin_cell[1],
              returned_value.origin_cell[2] + returned_value.coordinate_modifier[2])} :
     x \in AllCells /\ obstacle_grid[x] = IMPASSABLE_OBJECT /\ exits_only_grid[x] # EXIT_CELL}

\* C15 as stated: is_diagonal_valid is true exactly when neither orthogonal
\* neighbour of the step is IMPASSABLE, with prevent_corner_crossing set or not.
C15_ValidIffNeitherSideBlocked ==
  pc = "diagonal" => (returned_value.value <=> BlockedSides = {})

\* C15, amended: is_diagonal_valid is false exactly when both orthogonal
\* neighbours of the step are IMPASSABLE, or prevent_corner_crossing is set and at
\* least one is; without the flag a step past one obstacle is valid.
C15_ValidUnlessBothSidesBlocked ==
  pc = "diagonal" =>
    (returned_value.value <=>
       IF cli_args.prevent_corner_crossing THEN BlockedSides = {}
       ELSE Cardinality(BlockedSides) < 2)

\* A step past one obstacle has been found valid, without the flag.
C15_Witness ==
  /\ pc = "diagonal"
  /\ Cardinality(BlockedSides) = 1
  /\ ~cli_args.prevent_corner_crossing
  /\ returned_value.value

\* The step from (1, 1) to (2, 2) has been asked about.
CornerStep ==
  /\ pc = "diagonal"
  /\ returned_value.origin_cell = Loc(1, 1)
  /\ returned_value.coordinate_modifier = Loc(1, 1)

\* The inner obstacles of the room.
InnerObstacles == cli_args.obstacles \ Boundary(4, 4)

\* C16 as stated: in the 4x4 room with obstacles on (1, 2) and (2, 1) the step
\* from (1, 1) to (2, 2) is valid without prevent_corner_crossing and not valid
\* with it.
C16_BarrierCrossedWithoutFlag ==
  (CornerStep /\ InnerObstacles = {Loc(1, 2), Loc(2, 1)})
    => (returned_value.value <=> ~cli_args.prevent_corner_crossing)

\* C16, amended: with obstacles on (1, 2) and (2, 1) the step from (1, 1) to
\* (2, 2) is not valid, with prevent_corner_crossing or without; with an obstacle
\* on (1, 2) alone it is valid without the flag and not valid with it.
C16_BarrierNeverCrossed ==
  /\ (CornerStep /\ InnerObstacles = {Loc(1, 2), Loc(2, 1)}) => ~returned_value.value
  /\ (CornerStep /\ InnerObstacles = {Loc(1, 2)})
       => (returned_value.value <=> ~cli_args.prevent_corner_crossing)

\* The step has been found not valid in the room of the two obstacles, without
\* the flag.
C16_Witness ==
  /\ CornerStep
  /\ InnerObstacles = {Loc(1, 2), Loc(2, 1)}
  /\ ~cli_args.prevent_corner_crossing
  /\ ~returned_value.value

\* C17: decay leaves the particles of the dynamic field as many as they were
\* when delta = 0 and never more when delta > 0, single_diffusion(true) leaves
\* them as many as they were, and after increase_particle_at, decay and
\* single_diffusion(true) no cell holds less than 0 particles.
C17_ParticlesConserved ==
  [][/\ pc' = "decay" =>
          /\ TotalParticles(dynamic_floor_field') <= TotalParticles(dynamic_floor_field)
          /\ cli_args.delta = 0 =>
               TotalParticles(dynamic_floor_field') = TotalParticles(dynamic_floor_field)
     /\ pc' = "single_diffusion" =>
          TotalParticles(dynamic_floor_field') = TotalParticles(dynamic_floor_field)
     /\ \A x \in AllCells : dynamic_floor_field'[x] >= 0]_vars

\* After a diffusion the exit cell holds a particle and all the particles put in
\* the field are still in it.
C17_Witness ==
  /\ pc = "single_diffusion"
  /\ dynamic_floor_field[Loc(2, 3)] > 0
  /\ TotalParticles(dynamic_floor_field) = MaxParticles

reset_position_grid(peds) ==
  [x \in AllCells |->
     LET here == {p \in 1 .. Len(peds) : peds[p].current = x}
     IN  IF here = {} THEN 0 ELSE peds[CHOOSE p \in here : \A q \in here : q <= p].id]

\* The structures the reset writes, as they are in the current state.
CurrentStructures ==
  [ pedestrian_set |-> pedestrian_set,
    pedestrian_position_grid |-> pedestrian_position_grid,
    initial_fire_grid |-> initial_fire_grid,
    fire_grid |-> fire_grid,
    dynamic_floor_field |-> dynamic_floor_field,
    exits_set |-> exits_set,
    exits_only_grid |-> exits_only_grid ]

\* The resets run_simulations makes between two simulations of a set with static
\* pedestrians: reset_pedestrians_structures and reset_exits at the end of one,
\* the dynamic floor field and the fire grid at the start of the next.
between_simulations_reset(s) ==
  [ pedestrian_set |-> reset_pedestrians_structures(s.pedestrian_set),
    pedestrian_position_grid |->
        reset_position_grid(reset_pedestrians_structures(s.pedestrian_set)),
    initial_fire_grid |-> s.initial_fire_grid,
    fire_grid |-> s.initial_fire_grid,
    dynamic_floor_field |-> [x \in DOMAIN s.dynamic_floor_field |-> 0],
    exits_set |-> reset_exits(s.exits_set),
    exits_only_grid |-> mark_blocked_exits(reset_exits(s.exits_set), s.exits_only_grid) ]

\* C20: the reset between two simulations is idempotent.  In every state of a
\* simulation, applying the reset twice in a row leaves the same pedestrian
\* records, position grid, fire grid, dynamic floor field and exit flags as
\* applying it once.
C20_ResetIsIdempotent ==
  between_simulations_reset(between_simulations_reset(CurrentStructures))
    = between_simulations_reset(CurrentStructures)

\* A simulation has ended with a pedestrian away from its origin, a fire that has
\* spread and an exit flagged as blocked: the reset changes the pedestrian list,
\* the fire grid and the exit flags.
C20_Witness ==
  /\ pc = "loop"
  /\ is_environment_empty
  /\ \E p \in 1 .. Len(pedestrian_set) : pedestrian_set[p].current # pedestrian_set[p].origin
  /\ fire_grid # initial_fire_grid
  /\ \E e \in 1 .. Len(exits_set) : exits_set[e].is_blocked_by_fire
  /\ between_simulations_reset(CurrentStructures).pedestrian_set # pedestrian_set
  /\ between_simulations_reset(CurrentStructures).exits_set # exits_set

(* ---------------- the phases of a time step ---------------- *)

\* The pedestrians whose places are the same in the next state.
SamePlaces ==
  \A p \in Ids : /\ pedestrian_set'[p].current = pedestrian_set[p].current
                 /\ pedestrian_set'[p].previous = pedestrian_set[p].previous

\* C21: a time step has two phases.  The scoring pass sets every target against the
\* position grid of the start of the step, which still holds the pedestrians where
\* they stand, and moves nobody; the conflicts are solved next, with the targets
\* and the places as the scoring left them; the movements are committed next, only
\* for pedestrians that are still MOVING and onto their targets; the position grid
\* is not written until the update that follows the commit.
C21_TwoPhaseStep ==
  [][ /\ pc = "evaluate" =>
            /\ pc' = "conflict"
            /\ pedestrian_position_grid = position_grid_of(pedestrian_set)
            /\ pedestrian_position_grid' = pedestrian_position_grid
            /\ SamePlaces
            /\ \A p \in Ids : pedestrian_set'[p].state = pedestrian_set[p].state
      /\ pc = "conflict" =>
            /\ pc' = "apply"
            /\ pedestrian_position_grid' = pedestrian_position_grid
            /\ SamePlaces
            /\ \A p \in Ids : pedestrian_set'[p].target = pedestrian_set[p].target
      /\ pc = "apply" =>
            /\ pc' = "update"
            /\ pedestrian_position_grid' = pedestrian_position_grid
            /\ \A p \in Ids :
                  /\ pedestrian_set'[p].target = pedestrian_set[p].target
                  /\ pedestrian_set'[p].current # pedestrian_set[p].current =>
                        /\ pedestrian_set[p].state = "MOVING"
                        /\ pedestrian_set'[p].current = pedestrian_set[p].target
      /\ pc = "update" =>
            /\ pc' = "reset"
            /\ pedestrian_set' = pedestrian_set
            /\ pedestrian_position_grid' = position_grid_of(pedestrian_set) ]_vars

\* The movements of a step are committed and the position grid is not rebuilt yet:
\* the winner of a conflict stands on a cell the grid holds 0 on, its id is still
\* on the cell it left, and the loser of the conflict is STOPPED.
C21_Witness ==
  /\ pc = "update"
  /\ \E p, q \in Ids :
       /\ pedestrian_set[p].state = "MOVING"
       /\ pedestrian_position_grid[pedestrian_set[p].current] = 0
       /\ pedestrian_position_grid[pedestrian_set[p].previous] = pedestrian_set[p].id
       /\ pedestrian_set[q].state = "STOPPED"
       /\ pedestrian_set[q].target = pedestrian_set[p].current

\* A wall or an obstacle: IMPASSABLE in the obstacle grid and not a cell of an exit.
IsWall(x) == obstacle_grid[x] = IMPASSABLE_OBJECT /\ exits_only_grid[x] = EMPTY_CELL

\* y is one of the four orthogonal neighbours of x.
OrthogonalNeighbours(x, y) ==
  \/ x[1] = y[1] /\ (x[2] - y[2] = 1 \/ y[2] - x[2] = 1)
  \/ x[2] = y[2] /\ (x[1] - y[1] = 1 \/ y[1] - x[1] = 1)

\* C22: the target the scoring pass sets for a MOVING pedestrian is its own cell or
\* one of its four orthogonal neighbours that is inside the grid, is not a wall and
\* holds no pedestrian in the position grid of the start of the step.  Hence a
\* pedestrian in the environment never stands outside the grid or on a wall, and
\* no two pedestrians exchange their cells in a step.
C22_TargetsAreLegal ==
  /\ pc = "conflict" =>
        \A p \in Ids : pedestrian_set[p].state = "MOVING" =>
          \/ pedestrian_set[p].target = pedestrian_set[p].current
          \/ /\ OrthogonalNeighbours(pedestrian_set[p].current, pedestrian_set[p].target)
             /\ pedestrian_set[p].target \in AllCells
             /\ ~IsWall(pedestrian_set[p].target)
             /\ pedestrian_position_grid[pedestrian_set[p].target] = 0
  /\ \A p \in Ids : /\ pedestrian_set[p].current \in AllCells
                     /\ ~IsWall(pedestrian_set[p].current)
  /\ pc = "update" =>
        \A p, q \in Ids :
          p # q => ~ /\ pedestrian_position_grid[pedestrian_set[p].current] = pedestrian_set[q].id
                     /\ pedestrian_position_grid[pedestrian_set[q].current] = pedestrian_set[p].id

\* The scoring pass has given a pedestrian that stands beside another pedestrian and
\* beside an obstacle a free orthogonal neighbour as target.
C22_Witness ==
  /\ pc = "conflict"
  /\ \E p \in Ids :
       /\ pedestrian_set[p].state = "MOVING"
       /\ pedestrian_set[p].target # pedestrian_set[p].current
       /\ \E x, y \in AllCells :
            /\ OrthogonalNeighbours(pedestrian_set[p].current, x)
            /\ pedestrian_position_grid[x] > 0
            /\ OrthogonalNeighbours(pedestrian_set[p].current, y)
            /\ IsWall(y)

(* ---------------- pedestrians and the fire ---------------- *)

\* The cells determine_risky_cells marks DANGER in its first pass: not an obstacle,
\* not on fire and at less than 1.5 of a fire cell, which is one of its eight
\* neighbours.
DangerCells ==
  {x \in AllCells :
     /\ obstacle_grid[x] # IMPASSABLE_OBJECT
     /\ fire_grid[x] # FIRE_CELL
     /\ \E mm \in 1 .. 8 :
          LET y == Loc(x[1] + moore_modifiers[mm][1], x[2] + moore_modifiers[mm][2])
          IN  y \in AllCells /\ fire_grid[y] = FIRE_CELL}

\* C23: no scoring pass gives a MOVING pedestrian a neighbouring cell that is on
\* fire or is a DANGER cell as target.
C23_NoTargetInFireOrDanger ==
  pc = "conflict" =>
    \A p \in Ids :
      (pedestrian_set[p].state = "MOVING" /\ pedestrian_set[p].target # pedestrian_set[p].current)
        => /\ fire_grid[pedestrian_set[p].target] # FIRE_CELL
           /\ pedestrian_set[p].target \notin DangerCells

\* C24: when a scoring pass begins, every pedestrian in the environment that stands
\* on a cell on fire is DEAD: no MOVING, STOPPED or LEAVING pedestrian is on a
\* cell on fire, whether it walked into the fire or the fire spread over it.
C24_OnFireIsDead ==
  pc = "evaluate" =>
    \A p \in Ids :
      (pedestrian_set[p].state # "GOT_OUT" /\ fire_grid[pedestrian_set[p].current] = FIRE_CELL)
        => pedestrian_set[p].state = "DEAD"

(* ---------------- the schedule of the fire ---------------- *)

\* C28: the fire spreads exactly at the time steps t >= 1 whose residue modulo the
\* spread interval K is 0, and only with fire_is_present.  At the end of such a
\* step the fire grid is the one zheng_fire_propagation leaves and the spread is
\* flagged; at the end of every other step, and in every other step of a
\* simulation, the fire grid is left as it is.  The residue the test reads is the
\* one of the time steps counted, which are at least 1 when it is read.
C28_SpreadSchedule ==
  [][ /\ pc = "spread" =>
            /\ number_timesteps >= 1
            /\ number_timesteps < MaxT =>
                  timesteps_mod_interval = number_timesteps % cli_args.fire_spread_interval
            /\ IF cli_args.fire_is_present /\ timesteps_mod_interval = 0
               THEN /\ fire_grid' = zheng_fire_propagation(fire_grid)
                    /\ has_the_fire_spread'
               ELSE /\ fire_grid' = fire_grid
                    /\ has_the_fire_spread' = has_the_fire_spread
      /\ pc \notin {"spread", "simulation"} =>
            /\ fire_grid' = fire_grid
            /\ has_the_fire_spread' => has_the_fire_spread ]_vars

\* The fire has spread for the second time, at the end of time step 2 * K, and not
\* at the end of the time step before.
C28_Witness ==
  /\ pc = "loop"
  /\ has_the_fire_spread
  /\ cli_args.fire_spread_interval > 1
  /\ number_timesteps = 2 * cli_args.fire_spread_interval
  /\ number_timesteps < MaxT + 1
  /\ FireCells(fire_grid) # FireCells(zheng_fire_propagation(initial_fire_grid))

(* ---------------- the absorbing states ---------------- *)

GracePeriod ==
  /\ pc = "apply" =>
        \A p \in Ids :
          /\ (pedestrian_set[p].state = "MOVING"
                /\ exits_only_grid[pedestrian_set[p].target] = EXIT_CELL) =>
                /\ pedestrian_set'[p].current = pedestrian_set[p].target
                /\ pedestrian_set'[p].state =
                      IF cli_args.immediate_exit THEN "GOT_OUT" ELSE "LEAVING"
          /\ pedestrian_set[p].state = "LEAVING" => pedestrian_set'[p].state = "GOT_OUT"
  /\ (pc # "apply" /\ ~(pc = "loop" /\ is_environment_empty)) =>
        \A p \in Ids :
          pedestrian_set[p].state = "LEAVING" =>
            /\ pedestrian_set'[p].state = "LEAVING"
            /\ pedestrian_set'[p].current = pedestrian_set[p].current
  /\ cli_args.immediate_exit => \A p \in Ids : pedestrian_set'[p].state # "LEAVING"

C27_LoserStaysPut ==
  [][ /\ pc = "apply" =>
            \A p \in Ids :
              pedestrian_set[p].state = "STOPPED" =>
                /\ pedestrian_set'[p].current = pedestrian_set[p].current
                /\ pedestrian_set'[p].previous = pedestrian_set[p].previous
      /\ pc = "update" =>
            \A p \in Ids :
              pedestrian_set[p].state = "STOPPED" =>
                pedestrian_position_grid'[pedestrian_set[p].current] = pedestrian_set[p].id
      /\ pc = "reset" =>
            \A p \in Ids :
              pedestrian_set[p].state = "STOPPED" => pedestrian_set'[p].state = "MOVING"
      /\ pc' = "evaluate" =>
            \A p \in Ids : pedestrian_set'[p].state # "STOPPED" ]_vars

\* A scoring pass begins with a pedestrian that lost the conflict of the step
\* before: it is MOVING on the cell it had, and the cell it had as target is the
\* cell the winner has moved to.
C27_Witness ==
  /\ pc = "evaluate"
  /\ number_timesteps >= 1
  /\ \E p, q \in Ids :
       /\ p # q
       /\ pedestrian_set[p].state = "MOVING"
       /\ pedestrian_set[p].target # pedestrian_set[p].current
       /\ pedestrian_position_grid[pedestrian_set[p].current] = pedestrian_set[p].id
       /\ pedestrian_set[q].target = pedestrian_set[p].target
       /\ pedestrian_set[q].current = pedestrian_set[p].target
       /\ pedestrian_set[q].previous # pedestrian_set[q].current

(* ---------------- one call of zheng_fire_propagation ---------------- *)

\* The cells of the grid around x: its eight neighbours.
MooreNeighbours(x) ==
  {y \in AllCells : /\ y # x
                    /\ y[1] \in x[1] - 1 .. x[1] + 1
                    /\ y[2] \in x[2] - 1 .. x[2] + 1}

\* C29: one call of zheng_fire_propagation is a parallel Moore-8 update: the new
\* fire set is the old one plus exactly the cells of the grid that are EMPTY in the
\* obstacle grid and are one of the eight neighbours of a cell on fire before the
\* call (a cell ignited by the call ignites nothing in the same call), and no
\* obstacle or exit cell becomes FIRE.
C29_ParallelMoore8 ==
  [][ pc = "propagation" =>
        /\ FireCells(fire_grid') =
             FireCells(fire_grid) \cup
               {x \in AllCells : /\ obstacle_grid[x] = EMPTY_CELL
                                 /\ \E y \in MooreNeighbours(x) : y \in FireCells(fire_grid)}
        /\ \A x \in FireCells(fire_grid') \ FireCells(fire_grid) :
             /\ obstacle_grid[x] # IMPASSABLE_OBJECT
             /\ exits_only_grid[x] \notin {EXIT_CELL, BLOCKED_EXIT_CELL} ]_vars

(* ---------------- the fields after a spread ---------------- *)

\* The fire has spread in the simulation that is running: number_timesteps has
\* reached a multiple of fire_spread_interval.
SpreadInThisSimulation ==
  cli_args.fire_is_present /\ number_timesteps >= cli_args.fire_spread_interval

\* C30: at every scoring pass of a simulation in which the fire has spread, the
\* flags of the exits are those exit-block detection gives for the fire grid as it
\* is, the static field is the one computed from that fire grid and those exits,
\* and the fire field and the risky cells are computed from that fire grid: no
\* scoring pass works with a field of an older fire grid.
C30_FieldsOfTheCurrentFire ==
  (pc = "evaluate" /\ SpreadInThisSimulation) =>
    /\ \A e \in 1 .. Len(exits_set) :
         exits_set[e].is_blocked_by_fire = is_exit_blocked(exits_set[e], exits_only_grid, fire_grid)
    /\ \A x \in AllCells :
         (exits_only_grid[x] = BLOCKED_EXIT_CELL)
           <=> \E e \in 1 .. Len(exits_set) :
                 x \in SeqToSet(exits_set[e].coordinates) /\ exits_set[e].is_blocked_by_fire
    /\ static_floor_field =
         calculate_zheng_static_field(extract_non_blocked_exit_coordinates(exits_set),
                                      exits_only_grid, fire_grid)
    /\ fire_floor_field = fire_grid

\* A scoring pass after the second spread of a simulation, the fire larger than at
\* the start and an exit blocked by it.
C30_Witness ==
  /\ pc = "evaluate"
  /\ cli_args.fire_is_present
  /\ number_timesteps >= 2 * cli_args.fire_spread_interval
  /\ fire_grid # initial_fire_grid
  /\ \E e \in 1 .. Len(exits_set) : exits_set[e].is_blocked_by_fire
  /\ static_floor_field #
       calculate_zheng_static_field(extract_non_blocked_exit_coordinates(exits_set),
                                    exits_only_grid, initial_fire_grid)

(* ---------------- the first time step of a simulation ---------------- *)

\* The program is at the first scoring pass of a simulation.
FirstTimestep == pc = "evaluate" /\ number_timesteps = 0

InteriorCells ==
  {x \in AllCells : /\ x[1] \in 1 .. cli_args.global_line_number - 2
                    /\ x[2] \in 1 .. cli_args.global_column_number - 2}

\* The position grid insert_pedestrians_at_random starts from.
ClearedPositionGrid == [x \in AllCells |-> 0]

\* C32: insert_pedestrians_at_random(n) with n > 0 and at least n empty interior
\* cells returns SUCCESS with exactly n new pedestrians, each on a distinct empty
\* interior cell that holds its id in the position grid, whatever is drawn; and it
\* returns FAILURE only when no interior cell is empty any more.
C32_RandomInsertion ==
  \A n \in 1 .. Cardinality(InteriorCells) :
    \A r \in insert_pedestrians_at_random(0, n, pedestrian_set, ClearedPositionGrid) :
      /\ Cardinality({x \in InteriorCells : is_cell_empty(ClearedPositionGrid, x)}) >= n =>
           /\ r.status = "SUCCESS"
           /\ Len(r.list) = Len(pedestrian_set) + n
           /\ \A k \in Len(pedestrian_set) + 1 .. Len(r.list) :
                /\ r.list[k].current \in InteriorCells
                /\ is_cell_empty(ClearedPositionGrid, r.list[k].current)
                /\ r.grid[r.list[k].current] = r.list[k].id
                /\ \A j \in Len(pedestrian_set) + 1 .. Len(r.list) :
                     r.list[j].current = r.list[k].current => j = k
      /\ r.status = "FAILURE" => \A x \in InteriorCells : ~is_cell_empty(r.grid, x)

(* ---------------- the fixpoint of calculate_static_weight ---------------- *)

\* The cost, in halves, of the step from origin by modifier m in the structure of
\* the room: 1 for an orthogonal step, cli_args.diagonal for a valid diagonal one.
StepCosts(origin, m) ==
  IF m[1] # 0 /\ m[2] # 0
  THEN IF is_diagonal_valid(origin, m, initialize_static_weight_grid(exits_set[1]))
       THEN {cli_args.diagonal} ELSE {}
  ELSE {2}

\* The pairs of a cell and the least total cost, in halves, of a path to it from a
\* cell of the exit, after so many rounds of relaxation of the pairs given.
RECURSIVE LeastPathCost(_, _)
LeastPathCost(costs, rounds) ==
  IF rounds = 0 THEN costs
  ELSE LET steps_from(p) ==
             UNION {{<<Loc(p[1][1] + m[1], p[1][2] + m[2]), p[2] + c>> : c \in StepCosts(p[1], m)} :
                      m \in {d \in ((-1 .. 1) \X (-1 .. 1)) \ {<<0, 0>>} :
                               /\ Loc(p[1][1] + d[1], p[1][2] + d[2]) \in AllCells
                               /\ obstacle_grid[Loc(p[1][1] + d[1], p[1][2] + d[2])]
                                    # IMPASSABLE_OBJECT}}
           offered == costs \cup UNION {steps_from(p) : p \in costs}
       IN  LeastPathCost({p \in offered : \A q \in offered : q[1] = p[1] => p[2] <= q[2]},
                         rounds - 1)

\* The least path costs of the room: every path has fewer steps than cells.
LeastCosts ==
  LeastPathCost({<<x, 0>> : x \in SeqToSet(exits_set[1].coordinates)}, Cardinality(AllCells))

\* C33: at the fixpoint of the do-while loop of calculate_static_weight every
\* passable cell connected to the exit holds a positive weight, the least total
\* cost of a path from a cell of the exit (1 for an orthogonal step, the diagonal
\* cost for a valid diagonal step); the obstacles hold IMPASSABLE_OBJECT and the
\* cells of the exit EXIT_CELL.
C33_WeightsAreLeastCosts ==
  (pc = "do_while" /\ ~returned_value.has_changed) =>
    LET least == LeastCosts IN
    \A x \in AllCells :
      LET weight == returned_value.varas_static_weight[x] IN
      IF x \in SeqToSet(exits_set[1].coordinates) THEN weight = 2 * EXIT_CELL
      ELSE IF obstacle_grid[x] = IMPASSABLE_OBJECT THEN weight = 2 * IMPASSABLE_OBJECT
      ELSE \A p \in least : p[1] = x => (weight > 0 /\ weight = p[2])

(* ---------------- the sentinels of the static field ---------------- *)

\* The cells whose value calculate_zheng_static_field adds to sum_of_all_distances:
\* those that hold no sentinel.
ContributingCells(field) ==
  {x \in DOMAIN field : field[x] \notin {BLOCKED_EXIT_CELL, IMPASSABLE_OBJECT, FIRE_CELL}}

\* sum_of_all_distances is exactly 1: there is a cell of the exit list, which adds
\* 1 / (0 + 1), and no other cell adds anything.
SumIsOne(field) ==
  /\ \E x \in ContributingCells(field) : field[x] = 0
  /\ Cardinality(ContributingCells(field)) = 1

\* The normalisation pass leaves the cell as the first pass wrote it: it skips the
\* cell, or divides it by 1.
KeptByNormalisation(field, x) ==
  \/ field[x] = IMPASSABLE_OBJECT
  \/ field[x] = FIRE_CELL
  \/ SumIsOne(field)

\* C34: after calculate_zheng_static_field every cell that is IMPASSABLE (and no
\* exit), on fire (and no exit) or a blocked exit holds exactly its sentinel in the
\* static field: it adds nothing to the sum and the normalisation pass does not
\* alter it.
C34_SentinelsKept ==
  pc = "evaluate" =>
    \A x \in AllCells :
      LET sentinel ==
            IF exits_only_grid[x] = EXIT_CELL THEN {}
            ELSE IF exits_only_grid[x] = BLOCKED_EXIT_CELL THEN {BLOCKED_EXIT_CELL}
            ELSE IF obstacle_grid[x] = IMPASSABLE_OBJECT THEN {IMPASSABLE_OBJECT}
            ELSE IF fire_grid[x] = FIRE_CELL THEN {FIRE_CELL}
            ELSE {}
      IN  \A v \in sentinel :
            /\ static_floor_field[x] = v
            /\ x \notin ContributingCells(static_floor_field)
            /\ KeptByNormalisation(static_floor_field, x)

(* ---------------- the static field with every exit blocked ---------------- *)

\* C35: static_field_calculation leaves a well-defined, non-negative value on every
\* passable cell (an open exit cell, or a cell with neither an obstacle nor fire),
\* also when every exit is blocked by fire and the list of exit cells is empty: no
\* cell keeps the marker -1 as its distance and nothing is divided by zero.
C35_StaticValuesDefined ==
  pc = "evaluate" =>
    \A x \in AllCells :
      (\/ exits_only_grid[x] = EXIT_CELL
       \/ /\ exits_only_grid[x] = EMPTY_CELL
          /\ obstacle_grid[x] = EMPTY_CELL
          /\ fire_grid[x] = EMPTY_CELL)
        => /\ static_floor_field[x] # UNSET_DISTANCE
           /\ static_floor_field[x] >= 0
           /\ SumOfAllDistances(static_floor_field) = "finite"

(* ---------------- the distance of the cells to the fire: properties ---------------- *)

\* The cells a collection holds, as (line, column), for a collection indexed by lines or by columns.
CellsOfCollection(collection, by_lines) ==
  UNION {{IF by_lines THEN Loc(collection[s].main_coordinate, collection[s].secondary_coordinates[n])
          ELSE Loc(collection[s].secondary_coordinates[n], collection[s].main_coordinate) :
            n \in 1 .. Len(collection[s].secondary_coordinates)} : s \in 1 .. Len(collection)}

WellOrdered(collection) ==
  /\ \A s \in 1 .. Len(collection) - 1 :
       collection[s].main_coordinate < collection[s + 1].main_coordinate
  /\ \A s \in 1 .. Len(collection) :
       \A n \in 1 .. Len(collection[s].secondary_coordinates) - 1 :
         collection[s].secondary_coordinates[n] < collection[s].secondary_coordinates[n + 1]

\* C36: after calculate_distance_from_cells_to_fire with fire present every cell that is not
\* on fire holds the least Euclidean distance to a FIRE_CELL (here its square), whatever the
\* seeds and the shape of the grid, and the collection indexed by lines and the one indexed by
\* columns hold exactly the fire cells, main coordinates strictly increasing and secondary
\* coordinates increasing.
C36_FireDistances ==
  pc = "fire_distance_done" =>
    /\ \A x \in AllCells \ FireCells(fire_grid) :
         returned_value.fire_distance_grid[x] = ClosestSquaredDistance(x, FireCells(fire_grid))
    /\ CellsOfCollection(returned_value.line_set, TRUE) = FireCells(fire_grid)
    /\ CellsOfCollection(returned_value.column_set, FALSE) = FireCells(fire_grid)
    /\ WellOrdered(returned_value.line_set)
    /\ WellOrdered(returned_value.column_set)

(* ---------------- the roulette wheel: properties ---------------- *)

\* The indexes (from 0) of the weights that are not 0.
NonzeroIndexes(weights) == {i \in 0 .. Len(weights) - 1 : weights[i + 1] # 0}

\* The indexes of weights that are not 0 whose cumulative sum reaches the draw (in halves).
ReachingIndexes(weights, u) ==
  {i \in NonzeroIndexes(weights) : u <= 2 * current_sum(weights, i + 1)}

\* C37: for weights that are not all 0 and every draw, roulette_wheel_selection returns an
\* index i with 0 <= i < n whose weight is not 0: the first such index whose cumulative sum
\* reaches the draw, or the last index of a weight that is not 0 when no sum reaches it.
C37_RouletteIndex ==
  (pc = "roulette_done" /\ NonzeroIndexes(returned_value.probability_list) # {}) =>
    LET weights == returned_value.probability_list
        u == returned_value.draw_value
        i == returned_value.index
    IN /\ 0 <= i /\ i < returned_value.length
       /\ weights[i + 1] # 0
       /\ IF ReachingIndexes(weights, u) # {}
          THEN i \in ReachingIndexes(weights, u) /\ \A j \in ReachingIndexes(weights, u) : i <= j
          ELSE \A j \in NonzeroIndexes(weights) : j <= i

\* A draw of 0 on weights that begin with a 0: the index of the first weight that is not 0.
C37_Witness ==
  /\ pc = "roulette_done"
  /\ returned_value.probability_list = << 0, 2, 0 >>
  /\ returned_value.draw_value = 0
  /\ returned_value.index = 1

(* ---------------- the targets of the diffusion ---------------- *)

\* The cells that hold particles and have no valid orthogonal neighbour.
WalledInSources(field) == {x \in AllCells : field[x] > 0 /\ valid_modifiers(x) = {}}

\* C38: single_diffusion adds a particle only to a cell of the grid that is not a wall and
\* is an orthogonal neighbour of a cell that held a particle, and when every particle is on a
\* cell without a valid orthogonal neighbour it leaves the field as it was.
C38_DiffusionTargets ==
  [][pc' = "single_diffusion" =>
       /\ \A y \in AllCells :
            dynamic_floor_field'[y] > dynamic_floor_field[y] =>
              /\ static_floor_field[y] # WALL_CELL
              /\ \E x \in AllCells : \E m \in 0 .. 3 :
                   dynamic_floor_field[x] > 0 /\ diffusion_neighbour(x, m) = y
       /\ (\A x \in AllCells : dynamic_floor_field[x] > 0 => x \in WalledInSources(dynamic_floor_field))
            => dynamic_floor_field' = dynamic_floor_field]_vars

(* ---------------- the interval of the fire spread: properties ---------------- *)

\* C39: whenever the loop of the time steps evaluates number_timesteps % fire_spread_interval
\* the interval is at least 1, with or without fire and also for a spread rate that covers
\* more than a cell in a time step: no remainder modulo zero is computed.
C39_IntervalAtLeastOne ==
  /\ pc = "spread" => cli_args.fire_spread_interval >= 1
  /\ pc # "SIGFPE"

(* ---------------- the evacuation without fire: properties ---------------- *)

EveryoneGotOut == \A p \in Ids : pedestrian_set[p].state = "GOT_OUT"

\* C40: without fire, every pedestrian starting on a cell connected to an exit, under the
\* fairness of the draws of the targets and of the winners of the conflicts every
\* pedestrian is eventually GOT_OUT at the head of the loop, is_environment_empty holds
\* and the loop of the time steps ends.
C40_EveryoneLeaves ==
  /\ <>(pc = "loop" /\ EveryoneGotOut /\ is_environment_empty)
  /\ <>(pc = "done")

\* The two pedestrians of the corridor are out after a conflict for its middle cell.
C40_Witness ==
  /\ pc = "loop"
  /\ Len(pedestrian_set) = 2
  /\ EveryoneGotOut
  /\ is_environment_empty
  /\ number_timesteps >= 3

(* ---------------- the fire-blocks-the-only-exit scenario ---------------- *)

\* The squared distance from x to the closest cell of an exit that is not flagged.
ExitDistance(x) == ClosestSquaredDistance(x, extract_non_blocked_exit_coordinates(exits_set))

\* The scoring pass in which a pedestrian at squared distance d of the exits draws
\* a target that is nearer to them.
Approach(d) ==
  /\ evaluate_pedestrians_movements
  /\ \E p \in Ids :
       /\ pedestrian_set[p].state = "MOVING"
       /\ ExitDistance(pedestrian_set[p].current) = d
       /\ ExitDistance(pedestrian_set'[p].target) < d

\* The squared distances of the cells of a 5x5 room to an exit cell on its boundary.
ApproachDistances == {1, 2, 4, 5, 9, 10}

InitFireBlock == \E ks \in {0, 1} : InitWith(FireBlock(ks))

\* The scenario under the scheduling of the program: the loop keeps running while
\* it can, and a draw that is possible again and again is drawn again and again.
FairSpec ==
  /\ InitFireBlock
  /\ [][Next]_vars
  /\ WF_vars(Next)
  /\ \A d \in ApproachDistances : SF_vars(Approach(d))

\* C3: in the scenario where fire blocks the only exit the loop
\* while(is_environment_empty() == false) terminates: the program is eventually at
\* the head of the loop with no pedestrian MOVING, STOPPED or LEAVING.
C3_LoopTerminates == <>(pc = "loop" /\ LivePedestrians = {})

====
